---- MODULE Spec2Model ----
(***************************************************************************)
(* Wall composition core of arxos (src/core/c/wall_composition).           *)
(*                                                                         *)
(* Numbers.  The C code stores coordinates as int64 nanometres and every   *)
(* derived quantity as a double.  TLC's integers are 32 bits wide, so the  *)
(* model works on a coarser grid with the same structure:                  *)
(*   - a coordinate is an integer number of grid units, one grid unit      *)
(*     being 10^5 nm, so that one millimetre is GridPerMm = 10 units;      *)
(*   - a length in millimetres (a double) is kept as its number of grid    *)
(*     units, i.e. fixed point with GridPerMm steps per millimetre;        *)
(*   - an angle in degrees is kept in steps of 1/AngScale degree;          *)
(*   - a confidence is kept in steps of 1/ConfScale;                       *)
(*   - a single-precision value keeps one step in FloatUlp of those, a     *)
(*     double every step.                                                  *)
(* The int64 range is scaled with the grid: dx*dx + dy*dy + dz*dz          *)
(* overflows exactly when the sum in grid units exceeds SumLimit.          *)
(***************************************************************************)
EXTENDS Integers, Sequences, FiniteSets, TLC

VARIABLES
    ub,                 \* what the build yields where the C code is undefined
    seg,                \* SpecSegment: one caller-owned wall segment
    seg_set,            \* SpecSegment: set_points has run on seg
    pair,               \* SpecConnection: two caller-owned segments
    connection,         \* SpecConnection: the connection last computed
    engine,             \* the composition engine (its stored config)
    structure,          \* SpecStructure: one wall structure
    segments,           \* SpecEngine: the caller's input array
    structures,         \* SpecEngine: array returned by compose_walls
    structure_count,
    connections,        \* SpecEngine / SpecConnection: detect_connections
    connection_count,
    filtered,           \* SpecEngine: array returned by filter_by_confidence
    filtered_count,
    called,             \* the engine operations that have returned a result
    ret,                \* what the last call returned ("void": nothing)
    failed,             \* the last mutator call could not do its work
    arg,                \* SpecArxObjects: the id passed to the last call
    point1,             \* SpecPoint: two caller-owned points (or NULL)
    point2,
    curved,             \* SpecCurve: one caller-owned curved segment
    points,             \* SpecCurve: array returned by approximate_curve
    point_count,
    spatial_index,      \* SpecIndex: one caller-owned spatial index
    inserted,           \* SpecIndex: the <<id, point>> pairs insert stored
    query,              \* SpecIndex: the arguments of the last query
    results,            \* SpecIndex: array returned by the last query
    result_count,
    caller_config       \* SpecConfig: the caller's own config value

\* The state of the objects introduced after the engine's
moreVars == <<ret, failed, arg, point1, point2, curved, points, point_count,
              spatial_index, inserted, query, results, result_count,
              caller_config>>

vars == <<ub, seg, seg_set, pair, connection, engine, structure, segments,
          structures, structure_count, connections, connection_count,
          filtered, filtered_count, called, moreVars>>

\* A null pointer (also: an array pointer that is NULL)
NULL == <<>>

-----------------------------------------------------------------------------
(* Scales and program constants *)

GridPerMm == 10
SumLimit == 922337203
AngScale == 10
ConfScale == 1000
FloatUlp == 4
ARX_UNIT_NANOMETER == 0
ARX_UNIT_MICROMETER == 1
ARX_UNIT_MILLIMETER == 2
ARX_UNIT_CENTIMETER == 3
ARX_UNIT_METER == 4
ARX_UNIT_INCH == 5
ARX_UNIT_FOOT == 6

Abs(v) == IF v < 0 THEN 0 - v ELSE v

Mm(v) == v * GridPerMm

Deg(v) == v * AngScale

\* The results a build can give for arx_smart_point_3d_distance once the
\* int64 sum has overflowed: the wrapped sum is negative, sqrt gives NaN and
\* the cast of NaN gives INT64_MIN (x86) or 0 (ARM); or the wrapped sum is
\* positive and the result is an unrelated distance.  INT64_MIN nanometres
\* is clipped to the model's integer range.
UBOutcomes == {-1000000, 0, 12345}

-----------------------------------------------------------------------------
(* Smart points *)

Point(x, y, z, unit) == [x |-> x, y |-> y, z |-> z, unit |-> unit]

ZeroPoint == Point(0, 0, 0, ARX_UNIT_NANOMETER)

RECURSIVE SqrtSearch(_, _, _)
SqrtSearch(n, lo, hi) ==
    IF lo = hi THEN lo
    ELSE LET mid == (lo + hi + 1) \div 2
         IN  IF mid * mid <= n THEN SqrtSearch(n, mid, hi)
                               ELSE SqrtSearch(n, lo, mid - 1)

\* (int64_t)sqrt((double)n) for 0 <= n <= SumLimit
Sqrt(n) == SqrtSearch(n, 0, 30370)

\* dx*dx + dy*dy + dz*dz does not fit the (scaled) int64
SumOverflows(dx, dy, dz) ==
    \/ Abs(dx) > 30370
    \/ Abs(dy) > 30370
    \/ Abs(dz) > 30370
    \/ dx * dx + dy * dy > SumLimit
    \/ dx * dx + dy * dy + dz * dz > SumLimit

\* Mutant of the distance: the second point's z is left out.
DistanceToFloor(p1, p2) ==
    LET dx == p1.x - p2.x
        dy == p1.y - p2.y
        dz == p1.z
    IN  IF SumOverflows(dx, dy, dz) THEN ub
        ELSE Sqrt(dx * dx + dy * dy + dz * dz)

\* arx_smart_point_3d_distance: millimetres, in grid units
arx_smart_point_3d_distance(p1, p2) ==
    LET dx == p1.x - p2.x
        dy == p1.y - p2.y
        dz == p1.z - p2.z
    IN  IF SumOverflows(dx, dy, dz) THEN ub
        ELSE Sqrt(dx * dx + dy * dy + dz * dz)

\* Nanometres in one grid unit
NmPerGrid == 1000000 \div GridPerMm

\* convert_to_nanometers, the result in grid units.  Millimetres and coarser
\* units convert exactly; a value in nanometres, micrometres or under an
\* unknown unit tag (which the code leaves unconverted) is exact for the
\* multiples of the grid that the model passes.
convert_to_nanometers(value, unit) ==
    CASE unit = ARX_UNIT_NANOMETER -> value \div NmPerGrid
      [] unit = ARX_UNIT_MICROMETER -> value \div (NmPerGrid \div 1000)
      [] unit = ARX_UNIT_MILLIMETER -> value * GridPerMm
      [] unit = ARX_UNIT_CENTIMETER -> value * 10 * GridPerMm
      [] unit = ARX_UNIT_METER -> value * 1000 * GridPerMm
      [] unit = ARX_UNIT_INCH -> (value * 254 * GridPerMm) \div 10
      [] unit = ARX_UNIT_FOOT -> (value * 3048 * GridPerMm) \div 10
      [] OTHER -> value \div NmPerGrid

arx_smart_point_3d_new(x, y, z, unit) ==
    [x |-> convert_to_nanometers(x, unit),
     y |-> convert_to_nanometers(y, unit),
     z |-> convert_to_nanometers(z, unit),
     unit |-> unit]

EqualsIgnoringUnit(p1, p2) ==
    IF p1 = NULL \/ p2 = NULL THEN FALSE
    ELSE p1.x = p2.x /\ p1.y = p2.y /\ p1.z = p2.z

arx_smart_point_3d_equals(p1, p2) ==
    IF p1 = NULL \/ p2 = NULL THEN FALSE
    ELSE p1.x = p2.x /\ p1.y = p2.y /\ p1.z = p2.z /\ p1.unit = p2.unit

-----------------------------------------------------------------------------
(* Wall segments *)

\* atan of b/a in 1/AngScale degrees for 0 <= b <= a, 0 < a (libm's atan on
\* the first octant; exact at 0 and 45 degrees, within 0.3 degree between)
AtanOctant(b, a) ==
    LET t == (b * 1000) \div a
    IN  (45 * AngScale * 1000 * t + 156 * t * (1000 - t)) \div 1000000

\* atan2(dy, dx) * RAD_TO_DEG, in (-180, 180] degrees
Atan2Deg(dy, dx) ==
    IF dx = 0 /\ dy = 0 THEN 0
    ELSE LET a == Abs(dx)
             b == Abs(dy)
             q == IF b <= a THEN AtanOctant(b, a)
                            ELSE Deg(90) - AtanOctant(a, b)
         IN  IF dy >= 0
             THEN (IF dx >= 0 THEN q ELSE Deg(180) - q)
             ELSE (IF dx >= 0 THEN 0 - q ELSE q - Deg(180))

arx_wall_segment_new ==
    [id |-> 0, start_point |-> ZeroPoint, end_point |-> ZeroPoint,
     length |-> 0, height |-> 0, thickness |-> 0, confidence |-> 0,
     orientation |-> 0, arx_object_ids |-> <<>>, arx_object_count |-> 0]

\* orientation += 360.0 for the negative orientation atan2(dy, dx) gave
\* (dy < 0).  The sum is rounded to the nearest value a double holds, here
\* the nearest step of 1/AngScale degree: an angle less than half a step
\* below 0 gives 360.0 itself, one under a whole step the step below 360.
Add360(dy, dx, angle) ==
    IF angle < 0 THEN angle + Deg(360)
    ELSE IF AtanOctant(2 * Abs(dy), Abs(dx)) = 0 THEN Deg(360)
    ELSE Deg(360) - 1

arx_wall_segment_calculate_properties(s) ==
    LET len == arx_smart_point_3d_distance(s.start_point, s.end_point)
        dx == s.end_point.x - s.start_point.x
        dy == s.end_point.y - s.start_point.y
        angle == Atan2Deg(dy, dx)
    IN  [s EXCEPT !.length = len,
                  !.orientation = IF len > 0
                                  THEN (IF dy < 0 THEN Add360(dy, dx, angle)
                                                  ELSE angle)
                                  ELSE @]

arx_wall_segment_set_points(s, start, end) ==
    IF s = NULL \/ start = NULL \/ end = NULL THEN s
    ELSE arx_wall_segment_calculate_properties(
             [s EXCEPT !.start_point = start, !.end_point = end])

\* Capacity of arx_object_ids
MaxArxObjects == 16

AddArxObjectOverwritingLast(segment, arx_object_id) ==
    IF segment = NULL THEN [segment |-> segment, ret |-> FALSE]
    ELSE IF segment.arx_object_count >= MaxArxObjects
    THEN [segment |-> [segment EXCEPT
                          !.arx_object_ids[MaxArxObjects] = arx_object_id],
          ret |-> FALSE]
    ELSE [segment |-> [segment EXCEPT
                          !.arx_object_ids = Append(@, arx_object_id),
                          !.arx_object_count = @ + 1],
          ret |-> TRUE]

\* arx_object_ids holds the entries written so far; the entries behind
\* arx_object_count are the zeros of the allocation and are never read.
arx_wall_segment_add_arx_object(segment, arx_object_id) ==
    IF segment = NULL \/ segment.arx_object_count >= MaxArxObjects
    THEN [segment |-> segment, ret |-> FALSE]
    ELSE [segment |-> [segment EXCEPT
                          !.arx_object_ids = Append(@, arx_object_id),
                          !.arx_object_count = @ + 1],
          ret |-> TRUE]

-----------------------------------------------------------------------------
(* Curved wall segments *)
(* An arc's angles are doubles in radians; the model keeps an angle as its  *)
(* number of quarter turns, where cos and sin are 1, 0 or -1 up to a        *)
(* residue below 10^-15 that the (int64_t) cast truncates away.  A curve   *)
(* parameter t = i/(n-1) is kept as the pair i, n-1; sampled coordinates    *)
(* are exact where the division leaves no remainder.  curve_length is not   *)
(* modelled: no operation reads it.  curve_data is a union of arc and       *)
(* bezier; every operation reads only the member that curve_type selects,   *)
(* the one the last setter wrote.                                           *)

ARX_CURVE_TYPE_LINEAR == 0
ARX_CURVE_TYPE_ARC == 1
ARX_CURVE_TYPE_BEZIER_QUADRATIC == 2
ARX_CURVE_TYPE_BEZIER_CUBIC == 3
ARX_CURVE_TYPE_SPLINE == 4

\* approximation_points of a new curved segment
DefaultApproximationPoints == 32

\* The (int64_t) cast of a quotient: truncation toward zero
TruncDiv(a, b) == IF a >= 0 THEN a \div b ELSE 0 - ((0 - a) \div b)

\* (int64_t)(radius * cos(angle)), angle in quarter turns
CosQ(q) == CASE q % 4 = 0 -> 1 [] q % 4 = 2 -> 0 - 1 [] OTHER -> 0

SinQ(q) == CASE q % 4 = 1 -> 1 [] q % 4 = 3 -> 0 - 1 [] OTHER -> 0

arx_curved_wall_segment_new ==
    [base |-> arx_wall_segment_new,
     curve_type |-> ARX_CURVE_TYPE_LINEAR,
     arc |-> [radius |-> 0, start_angle |-> 0, end_angle |-> 0,
              center |-> ZeroPoint],
     bezier |-> [control1 |-> ZeroPoint, control2 |-> ZeroPoint,
                 control3 |-> ZeroPoint],
     approximation_points |-> DefaultApproximationPoints]

\* The offset the code adds to a centre coordinate: the radius, a number of
\* millimetres, times cos or sin, added to a coordinate in nanometres.
ArcOffset(radius, c) == TruncDiv(radius * c, NmPerGrid)

\* The offset with the radius converted from millimetres
ArcOffsetInMm(radius, c) == Mm(radius) * c

ArcPoint(center, radius, angle) ==
    [x |-> center.x + ArcOffset(radius, CosQ(angle)),
     y |-> center.y + ArcOffset(radius, SinQ(angle)),
     z |-> center.z,
     unit |-> center.unit]

arx_curved_wall_segment_set_arc(segment, center, radius, start_angle, end_angle) ==
    IF segment = NULL \/ center = NULL THEN segment
    ELSE [segment EXCEPT
             !.curve_type = ARX_CURVE_TYPE_ARC,
             !.arc = [radius |-> radius, start_angle |-> start_angle,
                      end_angle |-> end_angle, center |-> center],
             !.base = arx_wall_segment_calculate_properties(
                          [@ EXCEPT
                              !.start_point =
                                  ArcPoint(center, radius, start_angle),
                              !.end_point =
                                  ArcPoint(center, radius, end_angle)])]

SetBezierQuadraticEndAtFirst(segment, control1, control2) ==
    IF segment = NULL \/ control1 = NULL \/ control2 = NULL THEN segment
    ELSE [segment EXCEPT
             !.curve_type = ARX_CURVE_TYPE_BEZIER_QUADRATIC,
             !.bezier.control1 = control1,
             !.bezier.control2 = control2,
             !.base = arx_wall_segment_calculate_properties(
                          [@ EXCEPT !.start_point = control1,
                                    !.end_point = control1])]

arx_curved_wall_segment_set_bezier_quadratic(segment, control1, control2) ==
    IF segment = NULL \/ control1 = NULL \/ control2 = NULL THEN segment
    ELSE [segment EXCEPT
             !.curve_type = ARX_CURVE_TYPE_BEZIER_QUADRATIC,
             !.bezier.control1 = control1,
             !.bezier.control2 = control2,
             !.base = arx_wall_segment_calculate_properties(
                          [@ EXCEPT !.start_point = control1,
                                    !.end_point = control2])]

arx_curved_wall_segment_set_bezier_cubic(segment, control1, control2, control3) ==
    IF segment = NULL \/ control1 = NULL \/ control2 = NULL
           \/ control3 = NULL
    THEN segment
    ELSE [segment EXCEPT
             !.curve_type = ARX_CURVE_TYPE_BEZIER_CUBIC,
             !.bezier = [control1 |-> control1, control2 |-> control2,
                         control3 |-> control3],
             !.base = arx_wall_segment_calculate_properties(
                          [@ EXCEPT !.start_point = control1,
                                    !.end_point = control3])]

\* num_points of approximate_curve
NumPoints(segment) ==
    IF segment.approximation_points < 2 THEN 2
    ELSE segment.approximation_points

\* (int64_t)(u*u*a + 2*u*t*b + t*t*c) at t = i/m, u = 1 - t
Quadratic(a, b, c, i, m) ==
    TruncDiv((m - i) * (m - i) * a + 2 * (m - i) * i * b + i * i * c, m * m)

\* (int64_t)(u*u*u*a + 3*u*u*t*b + 3*u*t*t*c + t*t*t*d) at t = i/m
Cubic(a, b, c, d, i, m) ==
    TruncDiv((m - i) * (m - i) * (m - i) * a + 3 * (m - i) * (m - i) * i * b
                 + 3 * (m - i) * i * i * c + i * i * i * d,
             m * m * m)

\* approximate_curve with the allocation succeeding; heap is what the
\* allocated block of num_points points holds before the code writes to it.
\* Point i of the C array is points[i + 1].
arx_curved_wall_segment_approximate_curve(segment, heap) ==
    IF segment = NULL THEN [points |-> NULL, point_count |-> 0]
    ELSE
    LET n == NumPoints(segment)
        m == n - 1
        arc == segment.arc
        p0 == segment.base.start_point
        p1 == segment.bezier.control1
        p2 == segment.bezier.control2
        pe == segment.base.end_point
        sample(i) ==
            CASE segment.curve_type = ARX_CURVE_TYPE_ARC ->
                     ArcPoint(arc.center, arc.radius,
                              arc.start_angle
                                  + (i * (arc.end_angle - arc.start_angle))
                                        \div m)
              [] segment.curve_type = ARX_CURVE_TYPE_BEZIER_QUADRATIC ->
                     [x |-> Quadratic(p0.x, p1.x, pe.x, i, m),
                      y |-> Quadratic(p0.y, p1.y, pe.y, i, m),
                      z |-> Quadratic(p0.z, p1.z, pe.z, i, m),
                      unit |-> p0.unit]
              [] segment.curve_type = ARX_CURVE_TYPE_BEZIER_CUBIC ->
                     [x |-> Cubic(p0.x, p1.x, p2.x, pe.x, i, m),
                      y |-> Cubic(p0.y, p1.y, p2.y, pe.y, i, m),
                      z |-> Cubic(p0.z, p1.z, p2.z, pe.z, i, m),
                      unit |-> p0.unit]
              [] OTHER ->
                     IF i = m THEN pe
                     ELSE IF i = 0 THEN p0
                     ELSE heap[i + 1]
    IN  [points |-> [k \in 1..n |-> sample(k - 1)], point_count |-> n]

-----------------------------------------------------------------------------
(* Wall structures *)

arx_wall_structure_new ==
    [id |-> 0, segments |-> <<>>, segment_count |-> 0, segment_capacity |-> 0,
     start_point |-> ZeroPoint, end_point |-> ZeroPoint,
     total_length |-> 0, max_height |-> 0, avg_thickness |-> 0,
     overall_confidence |-> 0]

Min(a, b) == IF a < b THEN a ELSE b

Max(a, b) == IF a > b THEN a ELSE b

\* (float)v: the nearest single-precision value
ToFloat(v) == ((2 * v + FloatUlp) \div (2 * FloatUlp)) * FloatUlp

\* The accumulators of the loop over the first n members
RECURSIVE AccLength(_, _)
AccLength(m, n) == IF n = 0 THEN 0 ELSE AccLength(m, n - 1) + m[n].length

RECURSIVE AccMaxHeight(_, _)
AccMaxHeight(m, n) ==
    IF n = 0 THEN 0
    ELSE LET h == AccMaxHeight(m, n - 1)
         IN  IF m[n].height > h THEN m[n].height ELSE h

RECURSIVE AccThickness(_, _)
AccThickness(m, n) ==
    IF n = 0 THEN 0 ELSE AccThickness(m, n - 1) + m[n].thickness

RECURSIVE AccWeighted(_, _)
AccWeighted(m, n) ==
    IF n = 0 THEN 0
    ELSE AccWeighted(m, n - 1) + m[n].confidence * m[n].length

RECURSIVE AccMinX(_, _)
AccMinX(m, n) ==
    IF n = 0 THEN m[1].start_point.x
    ELSE Min(Min(AccMinX(m, n - 1), m[n].start_point.x), m[n].end_point.x)

RECURSIVE AccMaxX(_, _)
AccMaxX(m, n) ==
    IF n = 0 THEN m[1].start_point.x
    ELSE Max(Max(AccMaxX(m, n - 1), m[n].start_point.x), m[n].end_point.x)

RECURSIVE AccMinY(_, _)
AccMinY(m, n) ==
    IF n = 0 THEN m[1].start_point.y
    ELSE Min(Min(AccMinY(m, n - 1), m[n].start_point.y), m[n].end_point.y)

RECURSIVE AccMaxY(_, _)
AccMaxY(m, n) ==
    IF n = 0 THEN m[1].start_point.y
    ELSE Max(Max(AccMaxY(m, n - 1), m[n].start_point.y), m[n].end_point.y)

\* Mutant of recalculate_properties: the box of the first member alone.
RecalculateBoxOfFirst(st) ==
    IF st.segment_count = 0 THEN st
    ELSE LET m == st.segments
             n == st.segment_count
             total_weight == AccLength(m, n)
             first == m[1].start_point
         IN  [st EXCEPT
                !.total_length = AccLength(m, n),
                !.max_height = AccMaxHeight(m, n),
                !.avg_thickness = AccThickness(m, n) \div n,
                !.overall_confidence =
                    IF total_weight > 0
                    THEN ToFloat(AccWeighted(m, n) \div total_weight)
                    ELSE 0,
                !.start_point = Point(AccMinX(m, 1), AccMinY(m, 1),
                                      first.z, first.unit),
                !.end_point = Point(AccMaxX(m, 1), AccMaxY(m, 1),
                                    first.z, first.unit)]

\* (timestamps are not modelled)
arx_wall_structure_recalculate_properties(st) ==
    IF st.segment_count = 0 THEN st
    ELSE LET m == st.segments
             n == st.segment_count
             total_weight == AccLength(m, n)
             first == m[1].start_point
         IN  [st EXCEPT
                !.total_length = AccLength(m, n),
                !.max_height = AccMaxHeight(m, n),
                !.avg_thickness = AccThickness(m, n) \div n,
                !.overall_confidence =
                    IF total_weight > 0
                    THEN ToFloat(AccWeighted(m, n) \div total_weight)
                    ELSE 0,
                !.start_point = Point(AccMinX(m, n), AccMinY(m, n),
                                      first.z, first.unit),
                !.end_point = Point(AccMaxX(m, n), AccMaxY(m, n),
                                    first.z, first.unit)]

\* Mutant of add_segment: the capacity is raised although growing failed.
AddSegmentGrowingAnyway(st, s, allocated) ==
    IF st = NULL \/ s = NULL
    THEN [structure |-> st, ret |-> FALSE]
    ELSE LET cap == IF st.segment_count >= st.segment_capacity
                    THEN (IF st.segment_capacity = 0 THEN 4
                          ELSE st.segment_capacity * 2)
                    ELSE st.segment_capacity
         IN  IF st.segment_count >= st.segment_capacity
                /\ ~allocated
             THEN [structure |-> [st EXCEPT !.segment_capacity = cap],
                   ret |-> FALSE]
             ELSE [structure |->
                       arx_wall_structure_recalculate_properties(
                           [st EXCEPT !.segment_capacity = cap,
                                             !.segments = Append(@, s),
                                             !.segment_count = @ + 1]),
                   ret |-> TRUE]

\* arx_wall_structure_add_segment; allocated tells whether realloc succeeds
\* when the code calls it.  The member is stored by value.
arx_wall_structure_add_segment(st, s, allocated) ==
    IF st = NULL \/ s = NULL
    THEN [structure |-> st, ret |-> FALSE]
    ELSE LET cap == IF st.segment_count >= st.segment_capacity
                    THEN (IF st.segment_capacity = 0 THEN 4
                          ELSE st.segment_capacity * 2)
                    ELSE st.segment_capacity
         IN  IF st.segment_count >= st.segment_capacity
                /\ ~allocated
             THEN [structure |-> st, ret |-> FALSE]
             ELSE [structure |->
                       arx_wall_structure_recalculate_properties(
                           [st EXCEPT !.segment_capacity = cap,
                                             !.segments = Append(@, s),
                                             !.segment_count = @ + 1]),
                   ret |-> TRUE]

-----------------------------------------------------------------------------
(* Wall connections *)

arx_wall_connection_new(segment1_id, segment2_id) ==
    [segment1_id |-> segment1_id, segment2_id |-> segment2_id,
     connection_confidence |-> 0, gap_distance |-> 0, angle_difference |-> 0,
     is_parallel |-> FALSE, is_perpendicular |-> FALSE, is_connected |-> FALSE]

\* Mutant of MinDistance: the end/start pairing is left out.
MinDistanceNoCross(seg1, seg2) ==
    LET dist1 == arx_smart_point_3d_distance(seg1.start_point, seg2.start_point)
        dist2 == arx_smart_point_3d_distance(seg1.start_point, seg2.end_point)
        dist4 == arx_smart_point_3d_distance(seg1.end_point, seg2.end_point)
    IN  Min(Min(dist1, dist2), dist4)

MinDistance(seg1, seg2) ==
    LET dist1 == arx_smart_point_3d_distance(seg1.start_point, seg2.start_point)
        dist2 == arx_smart_point_3d_distance(seg1.start_point, seg2.end_point)
        dist3 == arx_smart_point_3d_distance(seg1.end_point, seg2.start_point)
        dist4 == arx_smart_point_3d_distance(seg1.end_point, seg2.end_point)
    IN  Min(Min(dist1, dist2), Min(dist3, dist4))

AngleDiff(seg1, seg2) ==
    LET d == Abs(seg1.orientation - seg2.orientation)
    IN  IF d > Deg(180) THEN Deg(360) - d ELSE d

IsParallel(angle_diff) == angle_diff < Deg(5)

IsPerpendicular(angle_diff) == Abs(angle_diff - Deg(90)) < Deg(5)

\* Mutant of IsConnected: the tolerance is read from the engine's config.
IsConnectedByConfig(min_distance) ==
    min_distance < engine.config.max_gap_distance

IsConnected(min_distance) == min_distance < Mm(50)

ConnectionConfidence(angle_diff, min_distance) ==
    LET angle_confidence == ConfScale - (angle_diff * ConfScale) \div Deg(180)
        d == ConfScale - (min_distance * ConfScale) \div Mm(1000)
        distance_confidence == IF d < 0 THEN 0 ELSE d
    IN  (angle_confidence + distance_confidence) \div 2

arx_wall_connection_calculate_properties(c, seg1, seg2) ==
    LET min_distance == MinDistance(seg1, seg2)
        angle_diff == AngleDiff(seg1, seg2)
    IN  [c EXCEPT
           !.gap_distance = min_distance,
           !.angle_difference = angle_diff,
           !.is_parallel = IsParallel(angle_diff),
           !.is_perpendicular = IsPerpendicular(angle_diff),
           !.is_connected = IsConnected(min_distance),
           !.connection_confidence =
               ConnectionConfidence(angle_diff, min_distance)]

-----------------------------------------------------------------------------
(* Composition engine *)

arx_composition_config_default ==
    [max_gap_distance |-> Mm(50),
     parallel_threshold |-> Deg(5),
     min_wall_length |-> Mm(100),
     max_wall_length |-> Mm(50000),
     confidence_threshold |-> (6 * ConfScale) \div 10,
     max_curve_approximation_points |-> 32,
     enable_curved_walls |-> TRUE,
     enable_advanced_validation |-> FALSE]

arx_spatial_index_new(max_objects_per_node, max_depth) ==
    [root |-> NULL, max_objects_per_node |-> max_objects_per_node,
     max_depth |-> max_depth, object_lookup |-> <<>>, object_count |-> 0,
     object_capacity |-> 0]

\* Capacity of object_lookup after its first growth
InitialLookupCapacity == 16

\* Mutant of clear: the quadtree root is dropped, the count is kept.
ClearRootOnly(index) ==
    IF index = NULL THEN index ELSE [index EXCEPT !.root = NULL]

\* arx_spatial_index_clear keeps the lookup storage and what is in it.
arx_spatial_index_clear(index) ==
    IF index = NULL THEN index
    ELSE [index EXCEPT !.root = NULL, !.object_count = 0]

\* arx_spatial_index_insert; allocated tells whether realloc succeeds when
\* the code calls it.  object_lookup holds the entries written so far, the
\* first object_count of them being the current ones.
arx_spatial_index_insert(index, object_id, point, allocated) ==
    IF index = NULL \/ point = NULL THEN index
    ELSE IF index.object_count >= index.object_capacity /\ ~allocated
    THEN index
    ELSE [index EXCEPT
             !.object_capacity =
                 IF index.object_count >= @
                 THEN (IF @ = 0 THEN InitialLookupCapacity ELSE @ * 2)
                 ELSE @,
             !.object_lookup =
                 IF index.object_count < Len(@)
                 THEN [@ EXCEPT ![index.object_count + 1] = object_id]
                 ELSE Append(@, object_id),
             !.object_count = @ + 1]

\* The result array and *result_count of both queries; count is what the
\* caller's result_count variable held before the call.
QueryAll(index, count, allocated) ==
    IF index.object_count = 0 \/ ~allocated
    THEN [results |-> NULL, result_count |-> index.object_count]
    ELSE [results |-> SubSeq(index.object_lookup, 1, index.object_count),
          result_count |-> index.object_count]

arx_spatial_index_query_nearby(index, point, radius_mm, count, allocated) ==
    IF index = NULL \/ point = NULL
    THEN [results |-> NULL, result_count |-> count]
    ELSE QueryAll(index, count, allocated)

arx_spatial_index_query_bounds(index, min_point, max_point, count, allocated) ==
    IF index = NULL \/ min_point = NULL \/ max_point = NULL
    THEN [results |-> NULL, result_count |-> count]
    ELSE QueryAll(index, count, allocated)

\* Mutant of engine_new: the caller's config is ignored.
EngineNewDefaultsOnly(config) ==
    [spatial_index |-> arx_spatial_index_new(10, 8),
     config |-> arx_composition_config_default]

arx_wall_composition_engine_new(config) ==
    [spatial_index |-> arx_spatial_index_new(10, 8),
     config |-> IF config = NULL THEN arx_composition_config_default
                                 ELSE config]

\* Mutant of compose_walls: segments of length 0 get no structure.
ComposeSkippingEmpty(e, segs, segment_count) ==
    LET keep == SelectSeq(segs, LAMBDA s : s.length > 0)
    IN  [structure_count |-> Len(keep),
         structures |->
            IF Len(keep) = 0 THEN NULL
            ELSE [i \in 1..Len(keep) |->
                    arx_wall_structure_add_segment(
                        arx_wall_structure_new, keep[i], TRUE).structure]]

\* One structure per input segment, each holding a copy of that segment.
arx_wall_composition_engine_compose_walls(e, segs, segment_count) ==
    [structure_count |-> segment_count,
     structures |->
        IF segment_count = 0 THEN NULL
        ELSE [i \in 1..segment_count |->
                arx_wall_structure_add_segment(
                    arx_wall_structure_new, segs[i], TRUE).structure]]

\* Mutant of detect_connections: every segment is paired with the first.
DetectAgainstFirst(e, segs, segment_count) ==
    LET count == IF segment_count > 1 THEN segment_count - 1 ELSE 0
    IN  [connection_count |-> count,
         connections |->
            IF count = 0 THEN NULL
            ELSE [i \in 1..count |->
                    arx_wall_connection_calculate_properties(
                        arx_wall_connection_new(segs[i].id, segs[i + 1].id),
                        segs[1], segs[i + 1])]]

\* One connection per pair of neighbours in the input order.
arx_wall_composition_engine_detect_connections(e, segs, segment_count) ==
    LET count == IF segment_count > 1 THEN segment_count - 1 ELSE 0
    IN  [connection_count |-> count,
         connections |->
            IF count = 0 THEN NULL
            ELSE [i \in 1..count |->
                    arx_wall_connection_calculate_properties(
                        arx_wall_connection_new(segs[i].id, segs[i + 1].id),
                        segs[i], segs[i + 1])]]

arx_wall_composition_engine_calculate_confidence(e, structs, count) ==
    IF structs = NULL THEN structs
    ELSE [i \in 1..count |->
            IF structs[i] = NULL THEN NULL
            ELSE arx_wall_structure_recalculate_properties(structs[i])]

\* Mutant of Keeps: a structure exactly at the threshold is dropped.
KeepsStrictlyAbove(e, st) ==
    st # NULL /\ st.overall_confidence > e.config.confidence_threshold

Keeps(e, st) ==
    st # NULL /\ st.overall_confidence >= e.config.confidence_threshold

\* The result holds pointers to the input's structures: the model keeps each
\* pointer as the index of the structure in the input array.
arx_wall_composition_engine_filter_by_confidence(e, structs, count) ==
    LET kept == SelectSeq([i \in 1..count |-> i],
                          LAMBDA i : Keeps(e, structs[i]))
    IN  [filtered_count |-> Len(kept),
         filtered |-> IF Len(kept) = 0 THEN NULL ELSE kept]

-----------------------------------------------------------------------------
(* Bounds and input domains *)

MaxSegments == 3

MaxMembers == 5

MmPoint(x, y, z) == Point(Mm(x), Mm(y), Mm(z), ARX_UNIT_MILLIMETER)

\* Endpoints for one segment: a square of side 1 m, a raised corner, and a
\* point 5 m away (beyond the range in which the squared distance fits).
SegPoints ==
    {MmPoint(0, 0, 0), MmPoint(1000, 0, 0), MmPoint(0, 1000, 0),
     MmPoint(1000, 1000, 0), MmPoint(1000, 0, 300), MmPoint(-1000, -1000, 0),
     MmPoint(5000, 0, 0)}

\* Endpoints for a pair of segments: gaps of 0, 80 and more than 1000 mm,
\* directions 0, 7, 90, 180 and 270 degrees, one point out of range.
ConnPoints ==
    {MmPoint(0, 0, 0), MmPoint(1000, 0, 0), MmPoint(1080, 0, 0),
     MmPoint(1000, 120, 0), MmPoint(0, 1000, 40), MmPoint(5000, 0, 0)}

EngineConfigs ==
    {NULL,
     [arx_composition_config_default EXCEPT !.parallel_threshold = Deg(10),
                                            !.max_gap_distance = Mm(100)],
     [arx_composition_config_default EXCEPT !.parallel_threshold = Deg(2),
                                            !.confidence_threshold =
                                                (7 * ConfScale) \div 10]}

\* A caller-built segment: arx_wall_segment_new, set_points, then the
\* caller's own assignments to id, height, thickness and confidence.
MakeSegment(id, start, end, height, thickness, confidence) ==
    [arx_wall_segment_set_points(arx_wall_segment_new, start, end)
        EXCEPT !.id = id, !.height = height, !.thickness = thickness,
               !.confidence = confidence]

\* Inputs of the engine: <<id, start, end, height, thickness, confidence>>
EngineSegments ==
    {MakeSegment(1, MmPoint(0, 0, 0), MmPoint(1000, 0, 0), Mm(2400), Mm(100), 500),
     MakeSegment(2, MmPoint(1000, 0, 0), MmPoint(2000, 0, 0), Mm(2400), Mm(100), 700),
     MakeSegment(3, MmPoint(0, 0, 0), MmPoint(1000, 120, 0), Mm(3000), Mm(200), 900),
     MakeSegment(4, MmPoint(0, 0, 0), MmPoint(0, 1000, 0), Mm(2400), Mm(150), 850),
     MakeSegment(5, MmPoint(500, 0, 0), MmPoint(500, 0, 0), Mm(2400), Mm(100), 600),
     MakeSegment(6, MmPoint(2000, 0, 0), MmPoint(6000, 0, 0), 0, 0, 1500)}

\* Members offered to a structure; confidences 1.5 and -0.2 are values the
\* code accepts although they are outside [0,1].
StructSegments ==
    {MakeSegment(1, MmPoint(0, 0, 0), MmPoint(1000, 0, 0), Mm(2400), Mm(100), 800),
     MakeSegment(2, MmPoint(1000, 0, 0), MmPoint(2000, 0, 0), Mm(3000), Mm(205), 900),
     MakeSegment(3, MmPoint(0, 0, 0), MmPoint(0, 0, 0), Mm(2700), Mm(100), 1000),
     MakeSegment(4, MmPoint(-500, 200, 0), MmPoint(1500, 200, 100), 0, 0, 333),
     MakeSegment(5, MmPoint(0, 0, 0), MmPoint(0, 1000, 0), Mm(2400), Mm(100), 1500),
     MakeSegment(6, MmPoint(0, 0, 0), MmPoint(500, 0, 0), Mm(2400), Mm(100), -200)}

Arrays(S, n) == UNION {[1..k -> S] : k \in 0..n}

-----------------------------------------------------------------------------
(* State machine *)

\* The objects of the later specifications before any call on them
IdleMore ==
    /\ ret = "none"
    /\ failed = FALSE
    /\ arg = <<>>
    /\ point1 = NULL
    /\ point2 = NULL
    /\ curved = arx_curved_wall_segment_new
    /\ points = NULL
    /\ point_count = 0
    /\ spatial_index = arx_spatial_index_new(10, 8)
    /\ inserted = <<>>
    /\ query = NULL
    /\ results = NULL
    /\ result_count = 0
    /\ caller_config = NULL

Idle ==
    /\ IdleMore
    /\ seg = arx_wall_segment_new
    /\ seg_set = FALSE
    /\ pair = <<arx_wall_segment_new, arx_wall_segment_new>>
    /\ connection = NULL
    /\ structure = arx_wall_structure_new
    /\ segments = <<>>
    /\ structures = NULL
    /\ structure_count = 0
    /\ connections = NULL
    /\ connection_count = 0
    /\ filtered = NULL
    /\ filtered_count = 0
    /\ called = {}

(* --- one segment --------------------------------------------------------- *)

InitSegment ==
    /\ ub \in UBOutcomes
    /\ engine = arx_wall_composition_engine_new(NULL)
    /\ Idle

SegmentNew ==
    /\ seg_set
    /\ seg' = arx_wall_segment_new
    /\ seg_set' = FALSE
    /\ UNCHANGED <<ub, pair, connection, engine, structure, segments,
                   structures, structure_count, connections,
                   connection_count, filtered, filtered_count, called,
                   moreVars>>

SegmentSetPoints ==
    \E start \in SegPoints, end \in SegPoints :
        /\ seg' = arx_wall_segment_set_points(seg, start, end)
        /\ seg_set' = TRUE
        /\ UNCHANGED <<ub, pair, connection, engine, structure, segments,
                       structures, structure_count, connections,
                       connection_count, filtered, filtered_count, called,
                   moreVars>>

NextSegment == SegmentNew \/ SegmentSetPoints

SpecSegment == InitSegment /\ [][NextSegment]_vars

(* --- two segments and their connection ----------------------------------- *)
(* The caller has built two segments (arx_wall_segment_new, set_points,    *)
(* ids 1 and 2); their connection is computed directly or by the engine on *)
(* the two-element array, and released again.                              *)

ConnSegments ==
    {arx_wall_segment_set_points(arx_wall_segment_new, start, end) :
        start \in ConnPoints, end \in ConnPoints}

InitConnection ==
    /\ ub \in UBOutcomes
    /\ IdleMore
    /\ \E config \in EngineConfigs :
           engine = arx_wall_composition_engine_new(config)
    /\ seg = arx_wall_segment_new
    /\ seg_set = FALSE
    /\ \E s1 \in ConnSegments, s2 \in ConnSegments :
           pair = <<[s1 EXCEPT !.id = 1], [s2 EXCEPT !.id = 2]>>
    /\ connection = NULL
    /\ structure = arx_wall_structure_new
    /\ segments = <<>>
    /\ structures = NULL
    /\ structure_count = 0
    /\ connections = NULL
    /\ connection_count = 0
    /\ filtered = NULL
    /\ filtered_count = 0
    /\ called = {}

ConnectionCalculate ==
    /\ connection = NULL
    /\ connection' = arx_wall_connection_calculate_properties(
                         arx_wall_connection_new(pair[1].id, pair[2].id),
                         pair[1], pair[2])
    /\ UNCHANGED <<ub, seg, seg_set, pair, engine, structure, segments,
                   structures, structure_count, connections,
                   connection_count, filtered, filtered_count, called,
                   moreVars>>

PairDetect ==
    /\ "detect" \notin called
    /\ LET r == arx_wall_composition_engine_detect_connections(engine, pair, 2)
       IN  /\ connections' = r.connections
           /\ connection_count' = r.connection_count
    /\ called' = called \cup {"detect"}
    /\ UNCHANGED <<ub, seg, seg_set, pair, connection, engine, structure,
                   segments, structures, structure_count, filtered,
                   filtered_count,
                   moreVars>>

\* arx_wall_connection_free, arx_wall_composition_free_connections
ConnectionsFree ==
    /\ connection # NULL \/ "detect" \in called
    /\ connection' = NULL
    /\ connections' = NULL
    /\ connection_count' = 0
    /\ called' = called \ {"detect"}
    /\ UNCHANGED <<ub, seg, seg_set, pair, engine, structure, segments,
                   structures, structure_count, filtered, filtered_count,
                   moreVars>>

NextConnection == ConnectionCalculate \/ PairDetect \/ ConnectionsFree

SpecConnection == InitConnection /\ [][NextConnection]_vars

(* --- one structure ------------------------------------------------------- *)

InitStructure ==
    /\ ub \in UBOutcomes
    /\ engine = arx_wall_composition_engine_new(NULL)
    /\ Idle

StructureNew ==
    /\ structure' = arx_wall_structure_new
    /\ UNCHANGED <<ub, seg, seg_set, pair, connection, engine, segments,
                   structures, structure_count, connections,
                   connection_count, filtered, filtered_count, called,
                   moreVars>>

StructureAddSegment ==
    /\ structure.segment_count < MaxMembers
    /\ \E s \in StructSegments :
           structure' =
               arx_wall_structure_add_segment(structure, s, TRUE).structure
    /\ UNCHANGED <<ub, seg, seg_set, pair, connection, engine, segments,
                   structures, structure_count, connections,
                   connection_count, filtered, filtered_count, called,
                   moreVars>>

StructureRecalculate ==
    /\ structure' = arx_wall_structure_recalculate_properties(structure)
    /\ UNCHANGED <<ub, seg, seg_set, pair, connection, engine, segments,
                   structures, structure_count, connections,
                   connection_count, filtered, filtered_count, called,
                   moreVars>>

NextStructure == StructureNew \/ StructureAddSegment \/ StructureRecalculate

SpecStructure == InitStructure /\ [][NextStructure]_vars

(* --- the engine on an input array ---------------------------------------- *)

InitEngine ==
    /\ ub \in UBOutcomes
    /\ IdleMore
    /\ \E config \in EngineConfigs :
           engine = arx_wall_composition_engine_new(config)
    /\ seg = arx_wall_segment_new
    /\ seg_set = FALSE
    /\ pair = <<arx_wall_segment_new, arx_wall_segment_new>>
    /\ connection = NULL
    /\ structure = arx_wall_structure_new
    /\ segments \in Arrays(EngineSegments, MaxSegments)
    /\ structures = NULL
    /\ structure_count = 0
    /\ connections = NULL
    /\ connection_count = 0
    /\ filtered = NULL
    /\ filtered_count = 0
    /\ called = {}

ComposeWalls ==
    /\ LET r == arx_wall_composition_engine_compose_walls(
                    engine, segments, Len(segments))
       IN  /\ structures' = r.structures
           /\ structure_count' = r.structure_count
    /\ called' = called \cup {"compose"}
    /\ UNCHANGED <<ub, seg, seg_set, pair, connection, engine, structure,
                   segments, connections, connection_count, filtered,
                   filtered_count,
                   moreVars>>

DetectConnections ==
    /\ LET r == arx_wall_composition_engine_detect_connections(
                    engine, segments, Len(segments))
       IN  /\ connections' = r.connections
           /\ connection_count' = r.connection_count
    /\ called' = called \cup {"detect"}
    /\ UNCHANGED <<ub, seg, seg_set, pair, connection, engine, structure,
                   segments, structures, structure_count, filtered,
                   filtered_count,
                   moreVars>>

CalculateConfidence ==
    /\ structures # NULL
    /\ structures' = arx_wall_composition_engine_calculate_confidence(
                         engine, structures, structure_count)
    /\ UNCHANGED <<ub, seg, seg_set, pair, connection, engine, structure,
                   segments, structure_count, connections, connection_count,
                   filtered, filtered_count, called,
                   moreVars>>

FilterByConfidence ==
    /\ structures # NULL
    /\ LET r == arx_wall_composition_engine_filter_by_confidence(
                    engine, structures, structure_count)
       IN  /\ filtered' = r.filtered
           /\ filtered_count' = r.filtered_count
    /\ called' = called \cup {"filter"}
    /\ UNCHANGED <<ub, seg, seg_set, pair, connection, engine, structure,
                   segments, structures, structure_count, connections,
                   connection_count,
                   moreVars>>

NextEngine ==
    ComposeWalls \/ DetectConnections \/ CalculateConfidence
        \/ FilterByConfidence

SpecEngine == InitEngine /\ [][NextEngine]_vars

-----------------------------------------------------------------------------
(* Claims checked under SpecEngine *)

\* C1: compose_walls on an array of n segments reports structure_count = n
\* and returns n structures in input order, structure i holding exactly one
\* member, a copy of segment i; for n = 0 it reports 0 and returns no array.
C1_ComposeOnePerSegment ==
    "compose" \in called =>
        LET n == Len(segments)
        IN  /\ structure_count = n
            /\ n = 0 => structures = NULL
            /\ n > 0 =>
                 /\ DOMAIN structures = 1..n
                 /\ \A i \in 1..n :
                        /\ structures[i] # NULL
                        /\ structures[i].segment_count = 1
                        /\ structures[i].segments = <<segments[i]>>

C1_Witness ==
    /\ "compose" \in called
    /\ Len(segments) = 3
    /\ structure_count = 3
    /\ segments[1] # segments[2]
    /\ segments[2] # segments[3]
    /\ \E i \in 1..3 : segments[i].length = 0
    /\ \A i \in 1..3 : structures[i].segments = <<segments[i]>>

\* C2: detect_connections on an array of n segments reports max(n-1, 0)
\* connections; connection i carries the ids of segments i and i+1 and the
\* properties computed from exactly that pair; no other pair is connected.
C2_DetectAdjacentPairs ==
    "detect" \in called =>
        LET n == Len(segments)
            count == IF n > 1 THEN n - 1 ELSE 0
        IN  /\ connection_count = count
            /\ count = 0 => connections = NULL
            /\ count > 0 =>
                 /\ DOMAIN connections = 1..count
                 /\ \A i \in 1..count :
                        /\ connections[i].segment1_id = segments[i].id
                        /\ connections[i].segment2_id = segments[i + 1].id
                        /\ connections[i] =
                             arx_wall_connection_calculate_properties(
                                 arx_wall_connection_new(segments[i].id,
                                                         segments[i + 1].id),
                                 segments[i], segments[i + 1])

\* Segments 1 and 3 touch, are not neighbours, and have no connection.
C2_Witness ==
    /\ "detect" \in called
    /\ Len(segments) = 3
    /\ connection_count = 2
    /\ Cardinality({segments[i].id : i \in 1..3}) = 3
    /\ segments[1].start_point = segments[3].start_point
    /\ \A k \in 1..2 :
           ~(/\ connections[k].segment1_id = segments[1].id
             /\ connections[k].segment2_id = segments[3].id)

\* C3: filter_by_confidence returns exactly the input structures whose
\* overall_confidence is >= the engine's confidence_threshold, in input
\* order, and filtered_count is the number returned.
C3_FilterKeepsAtOrAboveThreshold ==
    "filter" \in called =>
        LET kept == {i \in 1..structure_count :
                        structures[i].overall_confidence >=
                            engine.config.confidence_threshold}
        IN  /\ filtered_count = Cardinality(kept)
            /\ kept = {} <=> filtered = NULL
            /\ Len(filtered) = filtered_count
            /\ {filtered[j] : j \in 1..filtered_count} = kept
            /\ \A j, k \in 1..filtered_count :
                   j < k => filtered[j] < filtered[k]

\* Threshold 0.6 on confidences [0.5, 0.7, 0.9] keeps the last two.
C3_Witness ==
    /\ "filter" \in called
    /\ engine.config.confidence_threshold = (6 * ConfScale) \div 10
    /\ structure_count = 3
    /\ [i \in 1..3 |-> structures[i].overall_confidence] =
           <<(5 * ConfScale) \div 10, (7 * ConfScale) \div 10,
             (9 * ConfScale) \div 10>>
    /\ filtered = <<2, 3>>
    /\ filtered_count = 2

-----------------------------------------------------------------------------
(* Claims checked under SpecStructure *)

RECURSIVE SumOver(_, _)
SumOver(f, S) ==
    IF S = {} THEN 0
    ELSE LET i == CHOOSE j \in S : TRUE
         IN  f[i] + SumOver(f, S \ {i})

\* C4: the statistics of a structure are in sync with its members after any
\* sequence of add_segment and recalculate calls: total_length is the sum of
\* the member lengths, max_height the largest member height, avg_thickness
\* the mean thickness, overall_confidence the length-weighted mean of the
\* member confidences (0 when the total length is 0), all of them 0 with no
\* members; and recomputing changes nothing.
C4_StatisticsInSync ==
    LET m == structure.segments
        n == Len(m)
        lengths == SumOver([i \in 1..n |-> m[i].length], 1..n)
        weighted == SumOver([i \in 1..n |-> m[i].confidence * m[i].length],
                            1..n)
        thickness == SumOver([i \in 1..n |-> m[i].thickness], 1..n)
    IN  /\ structure.segment_count = n
        /\ structure.total_length = lengths
        /\ n = 0 => /\ structure.max_height = 0
                    /\ structure.avg_thickness = 0
                    /\ structure.overall_confidence = 0
        /\ n > 0 => /\ \E i \in 1..n : structure.max_height = m[i].height
                    /\ \A i \in 1..n : structure.max_height >= m[i].height
                    /\ structure.avg_thickness = thickness \div n
        /\ structure.overall_confidence =
               IF lengths > 0 THEN weighted \div lengths ELSE 0
        /\ arx_wall_structure_recalculate_properties(structure) = structure

\* Two members of 1000 mm with confidences 0.8 and 0.9: the stored mean is
\* the single-precision neighbour of 0.85.
C4_Witness ==
    /\ structure.segment_count = 2
    /\ structure.segments[1].confidence = 800
    /\ structure.segments[2].confidence = 900
    /\ structure.segments[1].length = structure.segments[2].length
    /\ structure.total_length = Mm(2000)
    /\ structure.overall_confidence = ToFloat(850)
    /\ structure.overall_confidence # 850

\* What the code keeps of C4: as C4_StatisticsInSync, with the weighted mean
\* narrowed to single precision before it is stored.
StatisticsInSyncSinglePrecision ==
    LET m == structure.segments
        n == Len(m)
        lengths == SumOver([i \in 1..n |-> m[i].length], 1..n)
        weighted == SumOver([i \in 1..n |-> m[i].confidence * m[i].length],
                            1..n)
        thickness == SumOver([i \in 1..n |-> m[i].thickness], 1..n)
    IN  /\ structure.segment_count = n
        /\ structure.total_length = lengths
        /\ n = 0 => /\ structure.max_height = 0
                    /\ structure.avg_thickness = 0
                    /\ structure.overall_confidence = 0
        /\ n > 0 => /\ \E i \in 1..n : structure.max_height = m[i].height
                    /\ \A i \in 1..n : structure.max_height >= m[i].height
                    /\ structure.avg_thickness = thickness \div n
        /\ structure.overall_confidence =
               IF lengths > 0 THEN ToFloat(weighted \div lengths) ELSE 0
        /\ arx_wall_structure_recalculate_properties(structure) = structure

\* C10: after any sequence of add_segment calls the structure's
\* overall_confidence lies in [0,1].
C10_OverallConfidenceInUnitInterval ==
    /\ structure.overall_confidence >= 0
    /\ structure.overall_confidence <= ConfScale

\* A single member of confidence 1.5 gives overall_confidence 1.5.
C10_Witness ==
    /\ structure.segment_count = 1
    /\ structure.segments[1].confidence = 1500
    /\ structure.segments[1].length > 0
    /\ structure.overall_confidence = 1500

\* What the code keeps of C10: the bound holds while every member's own
\* confidence lies in [0,1].
OverallConfidenceBoundedForValidMembers ==
    (\A i \in 1..Len(structure.segments) :
        /\ structure.segments[i].confidence >= 0
        /\ structure.segments[i].confidence <= ConfScale)
    => C10_OverallConfidenceInUnitInterval

-----------------------------------------------------------------------------
(* Claims checked under SpecSegment *)

\* C5: after any sequence of set_points calls the segment's length and
\* orientation are those of its current end points alone (those a fresh
\* segment given the same end points has), also when the end points
\* coincide.  Stated for end points within the range of the distance.
C5_DerivedFromCurrentPoints ==
    LET fresh == arx_wall_segment_set_points(
                     arx_wall_segment_new, seg.start_point, seg.end_point)
    IN  (/\ seg_set
         /\ ~SumOverflows(seg.start_point.x - seg.end_point.x,
                          seg.start_point.y - seg.end_point.y,
                          seg.start_point.z - seg.end_point.z))
        => /\ seg.length = fresh.length
           /\ seg.orientation = fresh.orientation

\* End points set to one point after a segment along +y: length 0, the
\* orientation still 90 degrees.
C5_Witness ==
    /\ seg_set
    /\ seg.start_point = seg.end_point
    /\ seg.length = 0
    /\ seg.orientation = Deg(90)

\* What the code keeps of C5: the length always follows the end points, the
\* orientation does whenever the end points differ.
DerivedFromCurrentPointsUnlessCoincident ==
    LET fresh == arx_wall_segment_set_points(
                     arx_wall_segment_new, seg.start_point, seg.end_point)
    IN  seg_set => /\ seg.length = fresh.length
                   /\ seg.length > 0 => seg.orientation = fresh.orientation

-----------------------------------------------------------------------------
(* Claims checked under SpecConnection *)

\* C6: for a connection computed by an engine whose config has
\* parallel_threshold T, is_parallel holds exactly when angle_difference < T
\* and is_perpendicular exactly when |angle_difference - 90| < T.
C6_ParallelByConfigThreshold ==
    ("detect" \in called /\ connection_count = 1) =>
        LET c == connections[1]
            T == engine.config.parallel_threshold
        IN  /\ c.is_parallel <=> c.angle_difference < T
            /\ c.is_perpendicular <=> Abs(c.angle_difference - Deg(90)) < T

\* An engine with parallel_threshold 10 degrees and two segments about 7
\* degrees apart: not parallel.
C6_Witness ==
    /\ "detect" \in called
    /\ connection_count = 1
    /\ engine.config.parallel_threshold = Deg(10)
    /\ connections[1].angle_difference >= Deg(5)
    /\ connections[1].angle_difference < Deg(10)
    /\ ~connections[1].is_parallel

\* C7: gap_distance is the least of the four end point distances, and
\* is_connected holds exactly when it is below 50 mm, whatever the engine's
\* config.max_gap_distance is.
C7_GapIsMinAndFixedTolerance ==
    connection # NULL =>
        LET a == pair[1]
            b == pair[2]
            D == {arx_smart_point_3d_distance(a.start_point, b.start_point),
                  arx_smart_point_3d_distance(a.start_point, b.end_point),
                  arx_smart_point_3d_distance(a.end_point, b.start_point),
                  arx_smart_point_3d_distance(a.end_point, b.end_point)}
        IN  /\ connection.gap_distance \in D
            /\ \A d \in D : connection.gap_distance <= d
            /\ connection.is_connected <=> connection.gap_distance < Mm(50)

\* A gap of 80 mm under max_gap_distance = 100 mm is not connected.
C7_Witness ==
    /\ connection # NULL
    /\ engine.config.max_gap_distance = Mm(100)
    /\ connection.gap_distance = Mm(80)
    /\ ~connection.is_connected

\* C8: computing the connection of (a,b) and of (b,a) gives the same
\* gap_distance, angle_difference, connection_confidence, is_parallel,
\* is_perpendicular and is_connected.
C8_ConnectionSymmetric ==
    connection # NULL =>
        LET r == arx_wall_connection_calculate_properties(
                     arx_wall_connection_new(pair[2].id, pair[1].id),
                     pair[2], pair[1])
        IN  /\ r.gap_distance = connection.gap_distance
            /\ r.angle_difference = connection.angle_difference
            /\ r.connection_confidence = connection.connection_confidence
            /\ r.is_parallel = connection.is_parallel
            /\ r.is_perpendicular = connection.is_perpendicular
            /\ r.is_connected = connection.is_connected

\* The gap is the end/start distance alone, and the two segments differ in
\* direction.
C8_Witness ==
    /\ connection # NULL
    /\ LET a == pair[1]
           b == pair[2]
           d3 == arx_smart_point_3d_distance(a.end_point, b.start_point)
       IN  /\ connection.gap_distance = d3
           /\ d3 < arx_smart_point_3d_distance(a.start_point, b.start_point)
           /\ d3 < arx_smart_point_3d_distance(a.start_point, b.end_point)
           /\ d3 < arx_smart_point_3d_distance(a.end_point, b.end_point)
           /\ connection.angle_difference > 0
           /\ a.orientation > b.orientation

AllInRange(a, b) ==
    \A p \in {a.start_point, a.end_point} :
        \A q \in {b.start_point, b.end_point} :
            ~SumOverflows(p.x - q.x, p.y - q.y, p.z - q.z)

InBounds(c) ==
    /\ c.angle_difference >= 0
    /\ c.angle_difference <= Deg(180)
    /\ c.connection_confidence >= 0
    /\ c.connection_confidence <= ConfScale

\* C9: every computed connection has angle_difference in [0,180] and
\* connection_confidence in [0,1].
C9_ConnectionInBounds ==
    /\ connection # NULL => InBounds(connection)
    /\ ("detect" \in called /\ connection_count = 1) => InBounds(connections[1])

\* Two collinear segments 4 m apart: the squared distance leaves the 64-bit
\* range, the gap comes out negative and the confidence above 1.
C9_Witness ==
    /\ connection # NULL
    /\ ~AllInRange(pair[1], pair[2])
    /\ connection.gap_distance < 0
    /\ connection.connection_confidence > ConfScale

\* What the code keeps of C9: the bounds hold while all four end point
\* distances are within the range of arx_smart_point_3d_distance.
ConnectionInBoundsWithinRange ==
    AllInRange(pair[1], pair[2]) => C9_ConnectionInBounds

-----------------------------------------------------------------------------
(* --- two points and their comparison ------------------------------------- *)
(* No distance is computed here, so ub is not read.                         *)

PointInputs ==
    {arx_smart_point_3d_new(1000, 2000, 3000, ARX_UNIT_MILLIMETER),
     arx_smart_point_3d_new(1, 2, 3, ARX_UNIT_METER),
     arx_smart_point_3d_new(100, 200, 300, ARX_UNIT_CENTIMETER),
     arx_smart_point_3d_new(1000000, 2000000, 3000000, ARX_UNIT_MICROMETER),
     arx_smart_point_3d_new(1000, 2000, 3001, ARX_UNIT_MILLIMETER),
     arx_smart_point_3d_new(1000, -2000, 3000, ARX_UNIT_MILLIMETER),
     arx_smart_point_3d_new(0, 0, 0, ARX_UNIT_MILLIMETER),
     arx_smart_point_3d_new(0, 0, 0, ARX_UNIT_NANOMETER),
     arx_smart_point_3d_new(10, 0, 0, ARX_UNIT_INCH),
     arx_smart_point_3d_new(254, 0, 0, ARX_UNIT_MILLIMETER),
     NULL}

InitPoint ==
    /\ ub = 0
    /\ engine = arx_wall_composition_engine_new(NULL)
    /\ seg = arx_wall_segment_new
    /\ seg_set = FALSE
    /\ pair = <<arx_wall_segment_new, arx_wall_segment_new>>
    /\ connection = NULL
    /\ structure = arx_wall_structure_new
    /\ segments = <<>>
    /\ structures = NULL
    /\ structure_count = 0
    /\ connections = NULL
    /\ connection_count = 0
    /\ filtered = NULL
    /\ filtered_count = 0
    /\ called = {}
    /\ ret = "none"
    /\ failed = FALSE
    /\ arg = <<>>
    /\ point1 \in PointInputs
    /\ point2 \in PointInputs
    /\ curved = arx_curved_wall_segment_new
    /\ points = NULL
    /\ point_count = 0
    /\ spatial_index = arx_spatial_index_new(10, 8)
    /\ inserted = <<>>
    /\ query = NULL
    /\ results = NULL
    /\ result_count = 0
    /\ caller_config = NULL

PointEquals ==
    /\ ret' = IF arx_smart_point_3d_equals(point1, point2) THEN "true"
                                                            ELSE "false"
    /\ UNCHANGED <<ub, seg, seg_set, pair, connection, engine, structure,
                   segments, structures, structure_count, connections,
                   connection_count, filtered, filtered_count, called,
                   failed, arg, point1, point2, curved, points, point_count,
                   spatial_index, inserted, query, results, result_count,
                   caller_config>>

NextPoint == PointEquals

SpecPoint == InitPoint /\ [][NextPoint]_vars

C16_SameLocationDifferentUnitsEqual ==
    (/\ ret # "none"
     /\ point1 = arx_smart_point_3d_new(1000, 2000, 3000, ARX_UNIT_MILLIMETER)
     /\ point2 = arx_smart_point_3d_new(1, 2, 3, ARX_UNIT_METER))
    => ret = "true"

\* The two points of the test: the same nanometre values, compared unequal.
C16_Witness ==
    /\ ret = "false"
    /\ point1 # NULL
    /\ point2 # NULL
    /\ point1.unit = ARX_UNIT_MILLIMETER
    /\ point2.unit = ARX_UNIT_METER
    /\ point1.x = Mm(1000) /\ point2.x = Mm(1000)
    /\ point1.y = Mm(2000) /\ point2.y = Mm(2000)
    /\ point1.z = Mm(3000) /\ point2.z = Mm(3000)

-----------------------------------------------------------------------------
(* --- one segment and its owning objects ---------------------------------- *)
(* No distance is computed here, so ub is not read.                         *)

ArxObjectIds == {12345, 7}

InitArxObjects ==
    /\ ub = 0
    /\ engine = arx_wall_composition_engine_new(NULL)
    /\ Idle

AddArxObject ==
    \E arx_object_id \in ArxObjectIds :
        LET r == arx_wall_segment_add_arx_object(seg, arx_object_id)
        IN  /\ seg' = r.segment
            /\ ret' = IF r.ret THEN "true" ELSE "false"
            /\ arg' = <<arx_object_id>>
            /\ UNCHANGED <<ub, seg_set, pair, connection, engine, structure,
                           segments, structures, structure_count,
                           connections, connection_count, filtered,
                           filtered_count, called, failed, point1, point2,
                           curved, points, point_count, spatial_index,
                           inserted, query, results, result_count,
                           caller_config>>

NextArxObjects == AddArxObject

SpecArxObjects == InitArxObjects /\ [][NextArxObjects]_vars

\* What one call does according to C17
AddStepAsClaimed ==
    IF seg.arx_object_count < 16
    THEN /\ ret' = "true"
         /\ seg'.arx_object_ids = Append(seg.arx_object_ids, arg'[1])
         /\ seg'.arx_object_count = seg.arx_object_count + 1
    ELSE /\ ret' = "false"
         /\ seg'.arx_object_ids = seg.arx_object_ids
         /\ seg'.arx_object_count = seg.arx_object_count

\* C17: add_arx_object appends the id and returns true while fewer than 16
\* ids are stored; from then on every attempt returns false and leaves
\* arx_object_ids and arx_object_count unchanged; so arx_object_count never
\* exceeds 16 and the stored ids are the accepted ones in call order.
C17_AddUpToSixteen ==
    /\ [](seg.arx_object_count <= 16
              /\ Len(seg.arx_object_ids) = seg.arx_object_count)
    /\ [][AddStepAsClaimed]_vars

\* A refused seventeenth id.
C17_Witness ==
    /\ seg.arx_object_count = 16
    /\ ret = "false"
    /\ arg[1] # seg.arx_object_ids[16]

-----------------------------------------------------------------------------
(* --- one curved segment and its approximation ----------------------------- *)
(* The caller sets a curve, chooses approximation_points and asks for the   *)
(* approximation; a setter call comes after the caller has released the     *)
(* previous approximation (arx_wall_composition_free_points).  arg holds    *)
(* the arguments of the last setter call.                                   *)

\* Control points: coordinates are multiples of 64 grid units, so that the
\* Bezier samples at t = 1/4, 1/2, 3/4 are whole grid units
CurvePoints ==
    {MmPoint(640, 1280, 0),
     arx_smart_point_3d_new(128, 0, 64, ARX_UNIT_CENTIMETER)}

ArcCenters == {MmPoint(640, 1280, 0)}

\* Radii in millimetres (100 m and 200 m): whole grid units when taken as
\* nanometres, as the code takes them
ArcRadii == {100000, 200000}

\* Angles in quarter turns
ArcStarts == {0, 1}

ArcEnds == {1, 4}

ApproximationCounts == {0, 2, 3, 5, DefaultApproximationPoints}

\* The parameter steps at which the model's samples are exact
ExactSteps == {1, 2, 4}

Samplable(segment) ==
    LET m == NumPoints(segment) - 1
    IN  CASE segment.curve_type = ARX_CURVE_TYPE_ARC ->
                 /\ m \in ExactSteps
                 /\ (segment.arc.end_angle - segment.arc.start_angle) % m = 0
          [] segment.curve_type \in {ARX_CURVE_TYPE_BEZIER_QUADRATIC,
                                     ARX_CURVE_TYPE_BEZIER_CUBIC} ->
                 m \in ExactSteps
          [] OTHER -> TRUE

\* What a block of n points may hold when malloc returns it
GarbagePoints == {ZeroPoint, Point(-77, 123456, 31, ARX_UNIT_FOOT)}

HeapBlocks(n) ==
    {[i \in 1..n |-> IF i % 2 = 0 THEN g1 ELSE g2] :
        g1 \in GarbagePoints, g2 \in GarbagePoints}

InitCurve ==
    /\ ub \in UBOutcomes
    /\ engine = arx_wall_composition_engine_new(NULL)
    /\ Idle

CurvedSetArc ==
    \E center \in ArcCenters, radius \in ArcRadii,
       start_angle \in ArcStarts, end_angle \in ArcEnds :
        /\ curved' = arx_curved_wall_segment_set_arc(
                         curved, center, radius, start_angle, end_angle)
        /\ arg' = <<center, radius, start_angle, end_angle>>
        /\ points' = NULL
        /\ point_count' = 0
        /\ UNCHANGED <<ub, seg, seg_set, pair, connection, engine, structure,
                       segments, structures, structure_count, connections,
                       connection_count, filtered, filtered_count, called,
                       ret, failed, point1, point2, spatial_index, inserted,
                       query, results, result_count, caller_config>>

CurvedSetBezierQuadratic ==
    \E control1 \in CurvePoints, control2 \in CurvePoints :
        /\ curved' = arx_curved_wall_segment_set_bezier_quadratic(
                         curved, control1, control2)
        /\ arg' = <<control1, control2>>
        /\ points' = NULL
        /\ point_count' = 0
        /\ UNCHANGED <<ub, seg, seg_set, pair, connection, engine, structure,
                       segments, structures, structure_count, connections,
                       connection_count, filtered, filtered_count, called,
                       ret, failed, point1, point2, spatial_index, inserted,
                       query, results, result_count, caller_config>>

CurvedSetBezierCubic ==
    \E control1 \in CurvePoints, control2 \in CurvePoints,
       control3 \in CurvePoints :
        /\ curved' = arx_curved_wall_segment_set_bezier_cubic(
                         curved, control1, control2, control3)
        /\ arg' = <<control1, control2, control3>>
        /\ points' = NULL
        /\ point_count' = 0
        /\ UNCHANGED <<ub, seg, seg_set, pair, connection, engine, structure,
                       segments, structures, structure_count, connections,
                       connection_count, filtered, filtered_count, called,
                       ret, failed, point1, point2, spatial_index, inserted,
                       query, results, result_count, caller_config>>

\* The caller's assignment to approximation_points
CurvedSetApproximationPoints ==
    \E n \in ApproximationCounts :
        /\ n # curved.approximation_points
        /\ curved' = [curved EXCEPT !.approximation_points = n]
        /\ points' = NULL
        /\ point_count' = 0
        /\ UNCHANGED <<ub, seg, seg_set, pair, connection, engine, structure,
                       segments, structures, structure_count, connections,
                       connection_count, filtered, filtered_count, called,
                       ret, failed, arg, point1, point2, spatial_index,
                       inserted, query, results, result_count,
                       caller_config>>

ApproximateCurve ==
    /\ Samplable(curved)
    /\ \E heap \in HeapBlocks(NumPoints(curved)) :
           LET r == arx_curved_wall_segment_approximate_curve(curved, heap)
           IN  /\ points' = r.points
               /\ point_count' = r.point_count
    /\ UNCHANGED <<ub, seg, seg_set, pair, connection, engine, structure,
                   segments, structures, structure_count, connections,
                   connection_count, filtered, filtered_count, called,
                   ret, failed, arg, point1, point2, curved, spatial_index,
                   inserted, query, results, result_count, caller_config>>

NextCurve ==
    \/ CurvedSetArc
    \/ CurvedSetBezierQuadratic
    \/ CurvedSetBezierCubic
    \/ CurvedSetApproximationPoints
    \/ ApproximateCurve

SpecCurve == InitCurve /\ [][NextCurve]_vars

\* The point at radius millimetres from center in the direction of angle
PointAtRadius(center, radius, angle) ==
    [x |-> center.x + ArcOffsetInMm(radius, CosQ(angle)),
     y |-> center.y + ArcOffsetInMm(radius, SinQ(angle)),
     z |-> center.z,
     unit |-> center.unit]

\* C11: after set_arc(center, radius in mm, start, end) the base segment's
\* start and end points, and the first and last points of the approximation,
\* lie radius millimetres from the centre in the direction of the start and
\* of the end angle.
C11_ArcPointsAtRadius ==
    curved.curve_type = ARX_CURVE_TYPE_ARC =>
        LET first == PointAtRadius(arg[1], arg[2], arg[3])
            last == PointAtRadius(arg[1], arg[2], arg[4])
        IN  /\ curved.base.start_point = first
            /\ curved.base.end_point = last
            /\ points # NULL => /\ points[1] = first
                                /\ points[point_count] = last

\* An arc of radius 100000 mm from 0 to 90 degrees sampled at 2 points: its
\* first point is 100000 nm (one grid unit) from the centre along x, its last
\* point one grid unit along y.
C11_Witness ==
    /\ curved.curve_type = ARX_CURVE_TYPE_ARC
    /\ arg = <<MmPoint(640, 1280, 0), 100000, 0, 1>>
    /\ points # NULL
    /\ point_count = 2
    /\ points[1] = Point(Mm(640) + 1, Mm(1280), 0, ARX_UNIT_MILLIMETER)
    /\ points[2] = Point(Mm(640), Mm(1280) + 1, 0, ARX_UNIT_MILLIMETER)

\* What the code keeps of C11: the points lie in the direction of the two
\* angles at a distance of radius nanometres.
ArcPointsAtRadiusInNanometres ==
    curved.curve_type = ARX_CURVE_TYPE_ARC =>
        LET first == ArcPoint(arg[1], arg[2], arg[3])
            last == ArcPoint(arg[1], arg[2], arg[4])
        IN  /\ curved.base.start_point = first
            /\ curved.base.end_point = last
            /\ points # NULL => /\ points[1] = first
                                /\ points[point_count] = last

\* The curve last set is a Bezier curve
IsBezier ==
    curved.curve_type \in {ARX_CURVE_TYPE_BEZIER_QUADRATIC,
                           ARX_CURVE_TYPE_BEZIER_CUBIC}

\* C12 as stated: after set_bezier_quadratic(c1,c2) the base start/end are
\* c1/c2, after set_bezier_cubic(c1,c2,c3) they are c1/c3, and the first and
\* last points of the approximation equal those anchor points.
C12_BezierEndsEqualAnchors ==
    IsBezier =>
        /\ curved.curve_type = ARX_CURVE_TYPE_BEZIER_QUADRATIC
               => Len(arg) = 2
        /\ curved.curve_type = ARX_CURVE_TYPE_BEZIER_CUBIC => Len(arg) = 3
        /\ curved.base.start_point = arg[1]
        /\ curved.base.end_point = arg[Len(arg)]
        /\ points # NULL => /\ points[1] = arg[1]
                            /\ points[point_count] = arg[Len(arg)]

\* C12 as amended: the base start/end are the anchors; the first and last
\* points of the approximation have the anchors' coordinates, and the last
\* one carries the unit tag of the first anchor.
C12_BezierEndsAtAnchorCoordinates ==
    IsBezier =>
        /\ curved.curve_type = ARX_CURVE_TYPE_BEZIER_QUADRATIC
               => Len(arg) = 2
        /\ curved.curve_type = ARX_CURVE_TYPE_BEZIER_CUBIC => Len(arg) = 3
        /\ curved.base.start_point = arg[1]
        /\ curved.base.end_point = arg[Len(arg)]
        /\ points # NULL =>
              /\ points[1] = arg[1]
              /\ points[point_count] =
                     [arg[Len(arg)] EXCEPT !.unit = arg[1].unit]

\* A cubic through anchors in millimetres and in centimetres, sampled at 5
\* points.
C12_Witness ==
    /\ curved.curve_type = ARX_CURVE_TYPE_BEZIER_CUBIC
    /\ points # NULL
    /\ point_count = 5
    /\ arg[1].unit = ARX_UNIT_MILLIMETER
    /\ arg[3].unit = ARX_UNIT_CENTIMETER
    /\ points[5].x = arg[3].x
    /\ points[5].y = arg[3].y
    /\ points[5].z = arg[3].z
    /\ points[5].unit = ARX_UNIT_MILLIMETER
    /\ points[1] # points[5]

\* C13: approximate_curve reports max(approximation_points, 2) points, and
\* every reported point is determined by the segment's curve data alone: a
\* second call, whatever its allocation holds, returns the same sequence.
C13_ApproximationDetermined ==
    points # NULL =>
        /\ point_count = Max(curved.approximation_points, 2)
        /\ Len(points) = point_count
        /\ \A heap \in HeapBlocks(point_count) :
               arx_curved_wall_segment_approximate_curve(curved, heap).points
                   = points

\* A new curved segment (linear, 32 approximation points): the second of the
\* 32 reported points is what the allocation held.
C13_Witness ==
    /\ curved = arx_curved_wall_segment_new
    /\ points # NULL
    /\ point_count = 32
    /\ points[1] = ZeroPoint
    /\ points[32] = ZeroPoint
    /\ points[2] = Point(-77, 123456, 31, ARX_UNIT_FOOT)

\* What the code keeps of C13: the count always; the points for arcs and
\* Bezier curves, and for the other kinds when only 2 points are asked for.
ApproximationDeterminedForCurves ==
    points # NULL =>
        /\ point_count = Max(curved.approximation_points, 2)
        /\ Len(points) = point_count
        /\ (IsBezier \/ curved.curve_type = ARX_CURVE_TYPE_ARC
                \/ point_count = 2)
               => \A heap \in HeapBlocks(point_count) :
                      arx_curved_wall_segment_approximate_curve(
                          curved, heap).points = points

(* --- the spatial lookup index --------------------------------------------- *)
(* spatial_index is one caller-owned index; inserted lists the <<id, point>>  *)
(* pairs the index accepted, query the arguments of the last query, results   *)
(* and result_count what that query returned.  No distance is computed by     *)
(* the code here, so ub is not read.                                          *)

MaxInserts == 3

IndexIds == {1, 2, 3}

IndexPoints ==
    {MmPoint(100, 100, 0), MmPoint(200, 200, 0), MmPoint(300, 300, 0)}

QueryPoints == {MmPoint(100, 100, 0), MmPoint(300, 300, 0)}

QueryRadii == {10, 150}

QueryBoxes ==
    {<<MmPoint(0, 0, 0), MmPoint(150, 150, 0)>>,
     <<MmPoint(150, 150, 0), MmPoint(300, 300, 0)>>}

InitIndex ==
    /\ ub = 0
    /\ engine = arx_wall_composition_engine_new(NULL)
    /\ Idle

IndexInsert ==
    /\ spatial_index.object_count < MaxInserts
    /\ \E object_id \in IndexIds, point \in IndexPoints \cup {NULL},
          allocated \in BOOLEAN :
        LET new == arx_spatial_index_insert(spatial_index, object_id, point,
                                            allocated)
        IN  /\ spatial_index' = new
            /\ inserted' = IF new = spatial_index THEN inserted
                           ELSE Append(inserted, <<object_id, point>>)
            /\ ret' = "void"
            /\ failed' = (new = spatial_index)
            /\ arg' = <<object_id, point>>
            /\ query' = NULL
            /\ results' = NULL
            /\ result_count' = 0
            /\ UNCHANGED <<ub, seg, seg_set, pair, connection, engine,
                           structure, segments, structures, structure_count,
                           connections, connection_count, filtered,
                           filtered_count, called, point1, point2, curved,
                           points, point_count, caller_config>>

IndexQueryNearby ==
    \E point \in QueryPoints, radius_mm \in QueryRadii,
       allocated \in BOOLEAN :
        LET r == arx_spatial_index_query_nearby(spatial_index, point,
                                                radius_mm, result_count,
                                                allocated)
        IN  /\ query' = [shape |-> "nearby", point |-> point,
                         radius_mm |-> radius_mm, allocated |-> allocated]
            /\ results' = r.results
            /\ result_count' = r.result_count
            /\ ret' = "none"
            /\ failed' = FALSE
            /\ UNCHANGED <<ub, seg, seg_set, pair, connection, engine,
                           structure, segments, structures, structure_count,
                           connections, connection_count, filtered,
                           filtered_count, called, arg, point1, point2,
                           curved, points, point_count, spatial_index,
                           inserted, caller_config>>

IndexQueryBounds ==
    \E box \in QueryBoxes, allocated \in BOOLEAN :
        LET r == arx_spatial_index_query_bounds(spatial_index, box[1],
                                                box[2], result_count,
                                                allocated)
        IN  /\ query' = [shape |-> "bounds", min_point |-> box[1],
                         max_point |-> box[2], allocated |-> allocated]
            /\ results' = r.results
            /\ result_count' = r.result_count
            /\ ret' = "none"
            /\ failed' = FALSE
            /\ UNCHANGED <<ub, seg, seg_set, pair, connection, engine,
                           structure, segments, structures, structure_count,
                           connections, connection_count, filtered,
                           filtered_count, called, arg, point1, point2,
                           curved, points, point_count, spatial_index,
                           inserted, caller_config>>

NextIndex == IndexInsert \/ IndexQueryNearby \/ IndexQueryBounds

SpecIndex == InitIndex /\ [][NextIndex]_vars

\* p lies within radius_mm millimetres of q
WithinRadius(p, q, radius_mm) ==
    (p.x - q.x) * (p.x - q.x) + (p.y - q.y) * (p.y - q.y)
        + (p.z - q.z) * (p.z - q.z) <= Mm(radius_mm) * Mm(radius_mm)

\* p lies inside the axis-aligned box from min_point to max_point
InsideBox(p, min_point, max_point) ==
    /\ min_point.x <= p.x /\ p.x <= max_point.x
    /\ min_point.y <= p.y /\ p.y <= max_point.y
    /\ min_point.z <= p.z /\ p.z <= max_point.z

\* The ids the last query has to return according to C14
IdsInQuery ==
    {inserted[i][1] : i \in
        {j \in 1..Len(inserted) :
            IF query.shape = "nearby"
            THEN WithinRadius(inserted[j][2], query.point, query.radius_mm)
            ELSE InsideBox(inserted[j][2], query.min_point,
                           query.max_point)}}

\* The ids the last query returned
IdsReturned ==
    IF results = NULL THEN {} ELSE {results[i] : i \in 1..Len(results)}

\* C14: after any sequence of inserts, query_nearby returns exactly the ids
\* whose inserted point lies within radius_mm of the query point and
\* query_bounds exactly the ids whose inserted point lies inside the box.
C14_QueriesReturnIdsInRange ==
    (query # NULL /\ query.allocated) => IdsReturned = IdsInQuery

\* Ids 1 and 2 inserted at (100,100,0) and (300,300,0) mm; the query for
\* 10 mm around (100,100,0) returns both.
C14_Witness ==
    /\ inserted = <<<<1, MmPoint(100, 100, 0)>>, <<2, MmPoint(300, 300, 0)>>>>
    /\ query # NULL
    /\ query.shape = "nearby"
    /\ query.point = MmPoint(100, 100, 0)
    /\ query.radius_mm = 10
    /\ results = <<1, 2>>
    /\ result_count = 2

\* What the code keeps of C14: every query returns all the ids inserted, in
\* insertion order.
QueriesReturnAllIds ==
    (query # NULL /\ query.allocated) =>
        /\ result_count = Len(inserted)
        /\ results = IF Len(inserted) = 0 THEN NULL
                     ELSE [i \in 1..Len(inserted) |-> inserted[i][1]]

\* C19: no mutator fails silently: when a mutator could not do its work the
\* caller receives an explicit failure signal.
C19_NoSilentFailure ==
    failed => ret = "false"

\* An insert with a proper point into an empty index whose storage could not
\* be grown: nothing was stored and the call returned nothing.
C19_Witness ==
    /\ failed
    /\ ret = "void"
    /\ Len(arg) = 2
    /\ arg[2] # NULL
    /\ spatial_index = arx_spatial_index_new(10, 8)
    /\ inserted = <<>>

(* --- invalid input segments (checked under SpecEngine) --------------------- *)

\* A segment whose confidence lies in [0,1]
ValidInput(segment) ==
    0 <= segment.confidence /\ segment.confidence <= ConfScale

\* C18: compose_walls and detect_connections skip each invalid input segment
\* (confidence outside [0,1]): no structure holds it, no connection names it,
\* and the count reported is the number of valid segments, so that the caller
\* can tell how many were skipped.
C18_InvalidSegmentsSkipped ==
    LET valid == {i \in 1..Len(segments) : ValidInput(segments[i])}
        invalid_ids == {segments[i].id : i \in (1..Len(segments)) \ valid}
    IN  /\ "compose" \in called =>
              /\ structure_count = Cardinality(valid)
              /\ structures # NULL =>
                    \A i \in DOMAIN structures :
                        \A k \in 1..Len(structures[i].segments) :
                            ValidInput(structures[i].segments[k])
        /\ "detect" \in called =>
              (connections # NULL =>
                  \A i \in DOMAIN connections :
                      /\ connections[i].segment1_id \notin invalid_ids
                      /\ connections[i].segment2_id \notin invalid_ids)

\* Two segments, the second with confidence 1.5: compose_walls reports two
\* structures, the second holding that segment, and detect_connections
\* connects the pair.
C18_Witness ==
    /\ "compose" \in called
    /\ "detect" \in called
    /\ Len(segments) = 2
    /\ ValidInput(segments[1])
    /\ segments[2].confidence = (3 * ConfScale) \div 2
    /\ structure_count = 2
    /\ structures[2].segments[1].confidence = (3 * ConfScale) \div 2
    /\ connection_count = 1
    /\ connections[1].segment2_id = segments[2].id

(* --- the engine's config ---------------------------------------------------- *)
(* caller_config is the caller's own config value (NULL: none given), engine  *)
(* the engine built from it (NULL before construction).  results records what *)
(* compose_walls and detect_connections returned when last called on the     *)
(* current input array, and whether either has been called again since.      *)

ConfigSegments == {s \in EngineSegments : s.id \in {1, 3}}

NoResults == [compose |-> NULL, detect |-> NULL, repeated |-> FALSE]

InitConfig ==
    /\ ub \in UBOutcomes
    /\ engine = NULL
    /\ caller_config \in EngineConfigs
    /\ segments \in Arrays(ConfigSegments, MaxSegments)
    /\ results = NoResults
    /\ seg = arx_wall_segment_new
    /\ seg_set = FALSE
    /\ pair = <<arx_wall_segment_new, arx_wall_segment_new>>
    /\ connection = NULL
    /\ structure = arx_wall_structure_new
    /\ structures = NULL
    /\ structure_count = 0
    /\ connections = NULL
    /\ connection_count = 0
    /\ filtered = NULL
    /\ filtered_count = 0
    /\ called = {}
    /\ ret = "none"
    /\ failed = FALSE
    /\ arg = <<>>
    /\ point1 = NULL
    /\ point2 = NULL
    /\ curved = arx_curved_wall_segment_new
    /\ points = NULL
    /\ point_count = 0
    /\ spatial_index = arx_spatial_index_new(10, 8)
    /\ inserted = <<>>
    /\ query = NULL
    /\ result_count = 0

EngineNew ==
    /\ engine = NULL
    /\ engine' = arx_wall_composition_engine_new(caller_config)
    /\ UNCHANGED <<ub, seg, seg_set, pair, connection, structure, segments,
                   structures, structure_count, connections, connection_count,
                   filtered, filtered_count, called, moreVars>>

\* The caller assigns to its own config value after the engine was built
CallerChangesConfig ==
    /\ engine # NULL
    /\ \E config \in EngineConfigs \ {caller_config} :
           caller_config' = config
    /\ UNCHANGED <<ub, seg, seg_set, pair, connection, engine, structure,
                   segments, structures, structure_count, connections,
                   connection_count, filtered, filtered_count, called, ret,
                   failed, arg, point1, point2, curved, points, point_count,
                   spatial_index, inserted, query, results, result_count>>

\* The caller frees the arrays of the last run and turns to another input
\* array
CallerChangesSegments ==
    /\ engine # NULL
    /\ \E segs \in Arrays(ConfigSegments, MaxSegments) \ {segments} :
           segments' = segs
    /\ results' = NoResults
    /\ called' = {}
    /\ structures' = NULL
    /\ structure_count' = 0
    /\ connections' = NULL
    /\ connection_count' = 0
    /\ filtered' = NULL
    /\ filtered_count' = 0
    /\ UNCHANGED <<ub, seg, seg_set, pair, connection, engine, structure,
                   ret, failed, arg, point1, point2, curved, points,
                   point_count, spatial_index, inserted, query, result_count,
                   caller_config>>

ComposeWallsAgain ==
    /\ engine # NULL
    /\ LET r == arx_wall_composition_engine_compose_walls(
                    engine, segments, Len(segments))
       IN  /\ structures' = r.structures
           /\ structure_count' = r.structure_count
           /\ results' = [results EXCEPT
                              !.compose = r,
                              !.repeated = @ \/ results.compose # NULL]
    /\ called' = called \cup {"compose"}
    /\ UNCHANGED <<ub, seg, seg_set, pair, connection, engine, structure,
                   segments, connections, connection_count, filtered,
                   filtered_count, ret, failed, arg, point1, point2, curved,
                   points, point_count, spatial_index, inserted, query,
                   result_count, caller_config>>

DetectConnectionsAgain ==
    /\ engine # NULL
    /\ LET r == arx_wall_composition_engine_detect_connections(
                    engine, segments, Len(segments))
       IN  /\ connections' = r.connections
           /\ connection_count' = r.connection_count
           /\ results' = [results EXCEPT
                              !.detect = r,
                              !.repeated = @ \/ results.detect # NULL]
    /\ called' = called \cup {"detect"}
    /\ UNCHANGED <<ub, seg, seg_set, pair, connection, engine, structure,
                   segments, structures, structure_count, filtered,
                   filtered_count, ret, failed, arg, point1, point2, curved,
                   points, point_count, spatial_index, inserted, query,
                   result_count, caller_config>>

NextConfig ==
    \/ EngineNew
    \/ CallerChangesConfig
    \/ CallerChangesSegments
    \/ ComposeWallsAgain
    \/ DetectConnectionsAgain
    \/ CalculateConfidence
    \/ FilterByConfidence

SpecConfig == InitConfig /\ [][NextConfig]_vars

\* What one step does according to C20
ConfigStepAsClaimed ==
    /\ (engine = NULL /\ engine' # NULL) =>
           /\ engine'.config = IF caller_config = NULL
                               THEN arx_composition_config_default
                               ELSE caller_config
           /\ engine'.spatial_index = arx_spatial_index_new(10, 8)
    /\ engine # NULL => engine' = engine
    /\ (segments' = segments /\ results.compose # NULL) =>
           results'.compose = results.compose
    /\ (segments' = segments /\ results.detect # NULL) =>
           results'.detect = results.detect

OrientationPoints ==
    {MmPoint(0, 0, 0), MmPoint(1000, 0, 0), MmPoint(0, 1000, 0),
     MmPoint(1000, 1000, 0), MmPoint(-1000, -1000, 0), MmPoint(0, -1000, 0),
     MmPoint(3000, -4, 0), Point(Mm(3000), -1, 0, ARX_UNIT_MILLIMETER)}

InitOrientation ==
    /\ ub \in UBOutcomes
    /\ engine = arx_wall_composition_engine_new(NULL)
    /\ Idle

OrientationSetPoints ==
    \E start \in OrientationPoints, end \in OrientationPoints :
        /\ seg' = arx_wall_segment_set_points(seg, start, end)
        /\ seg_set' = TRUE
        /\ UNCHANGED <<ub, pair, connection, engine, structure, segments,
                       structures, structure_count, connections,
                       connection_count, filtered, filtered_count, called,
                       moreVars>>

NextOrientation == SegmentNew \/ OrientationSetPoints

SpecOrientation == InitOrientation /\ [][NextOrientation]_vars

\* C22: for start and end points that are not identical the orientation set
\* by set_points lies in [0,360) degrees: 0 along +x, 90 along +y, 45 along
\* the (1000,1000) diagonal.
C22_OrientationInRange ==
    (seg_set /\ seg.start_point # seg.end_point) =>
        /\ 0 <= seg.orientation
        /\ seg.orientation < Deg(360)
        /\ seg.start_point = MmPoint(0, 0, 0) =>
              /\ seg.end_point = MmPoint(1000, 0, 0) => seg.orientation = 0
              /\ seg.end_point = MmPoint(0, 1000, 0)
                     => seg.orientation = Deg(90)
              /\ seg.end_point = MmPoint(1000, 1000, 0)
                     => seg.orientation = Deg(45)

\* A wall of 3000 mm along +x that falls by one grid unit: its orientation is
\* 360 degrees.
C22_Witness ==
    /\ seg_set
    /\ seg.start_point = MmPoint(0, 0, 0)
    /\ seg.end_point = Point(Mm(3000), -1, 0, ARX_UNIT_MILLIMETER)
    /\ seg.length = Mm(3000)
    /\ seg.orientation = Deg(360)

\* What the code keeps of C22: the orientation lies in [0,360], and in
\* [0,180] for a wall that does not fall.
OrientationAtMost360 ==
    (seg_set /\ seg.start_point # seg.end_point) =>
        /\ 0 <= seg.orientation
        /\ seg.orientation <= Deg(360)
        /\ (seg.length > 0 /\ seg.end_point.y >= seg.start_point.y)
               => seg.orientation <= Deg(180)

(* --- unit conversion of a point -------------------------------------------- *)
(* point1 is the point arx_smart_point_3d_new built from arg, the caller's    *)
(* <<x, y, z, unit>>; results is what the last to_millimeters or to_meters    *)
(* call on it stored through its three out-parameters.  A double that is a    *)
(* quotient n / f is kept exactly, as the whole part of the quotient and the  *)
(* rest of the division by f.  No distance is computed here, so ub is not     *)
(* read.                                                                      *)

\* Grid units in one unit of length, for millimetres and coarser units
GridPerUnit(unit) ==
    CASE unit = ARX_UNIT_MILLIMETER -> GridPerMm
      [] unit = ARX_UNIT_CENTIMETER -> 10 * GridPerMm
      [] unit = ARX_UNIT_METER -> 1000 * GridPerMm
      [] unit = ARX_UNIT_INCH -> (254 * GridPerMm) \div 10
      [] unit = ARX_UNIT_FOOT -> (3048 * GridPerMm) \div 10

\* The double v
Exactly(v) == [whole |-> v, rest |-> 0]

ConvertFromAsMillimeters(nanometers, unit) ==
    [whole |-> nanometers \div GridPerMm,
     rest |-> nanometers % GridPerMm]

convert_from_nanometers(nanometers, unit) ==
    IF unit \in {ARX_UNIT_MILLIMETER, ARX_UNIT_CENTIMETER, ARX_UNIT_METER,
                 ARX_UNIT_INCH, ARX_UNIT_FOOT}
    THEN [whole |-> nanometers \div GridPerUnit(unit),
          rest |-> nanometers % GridPerUnit(unit)]
    ELSE IF unit = ARX_UNIT_MICROMETER
    THEN Exactly(nanometers * (NmPerGrid \div 1000))
    ELSE Exactly(nanometers * NmPerGrid)

arx_smart_point_3d_to_millimeters(point) ==
    [x |-> convert_from_nanometers(point.x, ARX_UNIT_MILLIMETER),
     y |-> convert_from_nanometers(point.y, ARX_UNIT_MILLIMETER),
     z |-> convert_from_nanometers(point.z, ARX_UNIT_MILLIMETER)]

arx_smart_point_3d_to_meters(point) ==
    [x |-> convert_from_nanometers(point.x, ARX_UNIT_METER),
     y |-> convert_from_nanometers(point.y, ARX_UNIT_METER),
     z |-> convert_from_nanometers(point.z, ARX_UNIT_METER)]

UnitValues == {-2500, -1, 0, 3, 1000, 2000}

PointUnits == {ARX_UNIT_MILLIMETER, ARX_UNIT_CENTIMETER, ARX_UNIT_METER}

InitUnits ==
    /\ ub = 0
    /\ engine = arx_wall_composition_engine_new(NULL)
    /\ Idle

PointNew ==
    \E x \in UnitValues, y \in UnitValues, z \in {0, 3000},
       unit \in PointUnits :
        /\ arg' = <<x, y, z, unit>>
        /\ point1' = arx_smart_point_3d_new(x, y, z, unit)
        /\ query' = NULL
        /\ results' = NULL
        /\ UNCHANGED <<ub, seg, seg_set, pair, connection, engine, structure,
                       segments, structures, structure_count, connections,
                       connection_count, filtered, filtered_count, called,
                       ret, failed, point2, curved, points, point_count,
                       spatial_index, inserted, result_count, caller_config>>

PointToMillimeters ==
    /\ point1 # NULL
    /\ query' = ARX_UNIT_MILLIMETER
    /\ results' = arx_smart_point_3d_to_millimeters(point1)
    /\ UNCHANGED <<ub, seg, seg_set, pair, connection, engine, structure,
                   segments, structures, structure_count, connections,
                   connection_count, filtered, filtered_count, called, ret,
                   failed, arg, point1, point2, curved, points, point_count,
                   spatial_index, inserted, result_count, caller_config>>

PointToMeters ==
    /\ point1 # NULL
    /\ query' = ARX_UNIT_METER
    /\ results' = arx_smart_point_3d_to_meters(point1)
    /\ UNCHANGED <<ub, seg, seg_set, pair, connection, engine, structure,
                   segments, structures, structure_count, connections,
                   connection_count, filtered, filtered_count, called, ret,
                   failed, arg, point1, point2, curved, points, point_count,
                   spatial_index, inserted, result_count, caller_config>>

NextUnits == PointNew \/ PointToMillimeters \/ PointToMeters

SpecUnits == InitUnits /\ [][NextUnits]_vars

DistancePoints ==
    {MmPoint(0, 0, 0), MmPoint(1000, 0, 0), MmPoint(1000, 2000, 3000),
     arx_smart_point_3d_new(1, 2, 3, ARX_UNIT_METER),
     arx_smart_point_3d_new(100, 0, 0, ARX_UNIT_CENTIMETER),
     MmPoint(0, 300, 400), MmPoint(-1000, -1000, 0), MmPoint(5000, 0, 0),
     arx_smart_point_3d_new(0, 30, 40, ARX_UNIT_CENTIMETER),
     MmPoint(0, 0, 2500)}

InitDistance ==
    /\ ub \in UBOutcomes
    /\ engine = arx_wall_composition_engine_new(NULL)
    /\ Idle

PointDistance ==
    \E p1 \in DistancePoints, p2 \in DistancePoints :
        /\ point1' = p1
        /\ point2' = p2
        /\ results' = [forward |-> arx_smart_point_3d_distance(p1, p2),
                       backward |-> arx_smart_point_3d_distance(p2, p1)]
        /\ UNCHANGED <<ub, seg, seg_set, pair, connection, engine, structure,
                       segments, structures, structure_count, connections,
                       connection_count, filtered, filtered_count, called,
                       ret, failed, arg, curved, points, point_count,
                       spatial_index, inserted, query, result_count,
                       caller_config>>

NextDistance == PointDistance

SpecDistance == InitDistance /\ [][NextDistance]_vars

\* C24: the distance is symmetric, distance(a,b) = distance(b,a) for all
\* pairs of points, and is 0 for two points with the same nanometre
\* coordinates, whatever their unit tags.
C24_DistanceSymmetric ==
    results # NULL =>
        /\ results.forward = results.backward
        /\ (/\ point1.x = point2.x
            /\ point1.y = point2.y
            /\ point1.z = point2.z) => results.forward = 0

\* (0,0,0) mm and (0,30,40) cm: 500 mm both ways
C24_Witness ==
    /\ results # NULL
    /\ point1 = MmPoint(0, 0, 0)
    /\ point2 = arx_smart_point_3d_new(0, 30, 40, ARX_UNIT_CENTIMETER)
    /\ results.forward = Mm(500)
    /\ results.backward = Mm(500)

\* (1000,2000,3000) mm and (1,2,3) m: distance 0
SameLocationDistanceZero ==
    (/\ results # NULL
     /\ point1 = MmPoint(1000, 2000, 3000)
     /\ point2 = arx_smart_point_3d_new(1, 2, 3, ARX_UNIT_METER))
        => results.forward = 0

(* --- the members of one structure ------------------------------------------ *)
(* structure is one caller-owned structure; arg holds the segment offered by  *)
(* the last add_segment call, ret what the call returned, failed whether the  *)
(* call had a null argument or could not grow the member list.                *)

\* Members with start points at different heights and under different unit
\* tags, and with end points on either side of their start points
MemberSegments ==
    {MakeSegment(1, MmPoint(0, 0, 0), MmPoint(1000, 0, 0),
                 Mm(2400), Mm(100), 800),
     MakeSegment(2, arx_smart_point_3d_new(150, 20, 30, ARX_UNIT_CENTIMETER),
                 MmPoint(-500, 200, 0), Mm(3000), Mm(200), 900),
     MakeSegment(3, MmPoint(1000, -700, 50), MmPoint(1000, 900, 0),
                 Mm(2700), Mm(100), 500)}

InitMembers ==
    /\ ub = 0
    /\ engine = arx_wall_composition_engine_new(NULL)
    /\ Idle

MembersNew ==
    /\ structure # arx_wall_structure_new
    /\ structure' = arx_wall_structure_new
    /\ ret' = "none"
    /\ failed' = FALSE
    /\ arg' = <<>>
    /\ UNCHANGED <<ub, seg, seg_set, pair, connection, engine, segments,
                   structures, structure_count, connections,
                   connection_count, filtered, filtered_count, called,
                   point1, point2, curved, points, point_count,
                   spatial_index, inserted, query, results, result_count,
                   caller_config>>

MembersAddSegment ==
    /\ structure.segment_count < MaxMembers
    /\ \E s \in MemberSegments \cup {NULL}, allocated \in BOOLEAN :
        LET r == arx_wall_structure_add_segment(structure, s, allocated)
        IN  /\ structure' = r.structure
            /\ ret' = IF r.ret THEN "true" ELSE "false"
            /\ failed' = \/ s = NULL
                         \/ /\ structure.segment_count
                                   >= structure.segment_capacity
                            /\ ~allocated
            /\ arg' = <<s>>
            /\ UNCHANGED <<ub, seg, seg_set, pair, connection, engine,
                           segments, structures, structure_count,
                           connections, connection_count, filtered,
                           filtered_count, called, point1, point2, curved,
                           points, point_count, spatial_index, inserted,
                           query, results, result_count, caller_config>>

NextMembers == MembersNew \/ MembersAddSegment

SpecMembers == InitMembers /\ [][NextMembers]_vars

\* The x and y coordinates of the start and end points of all members
MemberXs ==
    {structure.segments[i].start_point.x : i \in 1..structure.segment_count}
        \cup
    {structure.segments[i].end_point.x : i \in 1..structure.segment_count}

MemberYs ==
    {structure.segments[i].start_point.y : i \in 1..structure.segment_count}
        \cup
    {structure.segments[i].end_point.y : i \in 1..structure.segment_count}

\* C25: with at least one member the structure's start_point x/y are the
\* minimum and its end_point x/y the maximum over the start and end points of
\* all members; both z values and the unit tag are those of the first
\* member's start point.
C25_BoundingBox ==
    structure.segment_count >= 1 =>
        LET first == structure.segments[1].start_point
        IN  /\ structure.start_point.x \in MemberXs
            /\ \A x \in MemberXs : structure.start_point.x <= x
            /\ structure.start_point.y \in MemberYs
            /\ \A y \in MemberYs : structure.start_point.y <= y
            /\ structure.end_point.x \in MemberXs
            /\ \A x \in MemberXs : x <= structure.end_point.x
            /\ structure.end_point.y \in MemberYs
            /\ \A y \in MemberYs : y <= structure.end_point.y
            /\ structure.start_point.z = first.z
            /\ structure.end_point.z = first.z
            /\ structure.start_point.unit = first.unit
            /\ structure.end_point.unit = first.unit

\* Member 2 (from (1500,200,300) mm, tagged centimetres, to (-500,200,0))
\* first, then members 3 and 1: the box runs from (-500,-700) to (1500,900)
\* at height 300 mm, tagged centimetres.
C25_Witness ==
    /\ structure.segment_count = 3
    /\ structure.segments[1].id = 2
    /\ structure.segments[2].id = 3
    /\ structure.segments[3].id = 1
    /\ structure.start_point =
           Point(Mm(-500), Mm(-700), Mm(300), ARX_UNIT_CENTIMETER)
    /\ structure.end_point =
           Point(Mm(1500), Mm(900), Mm(300), ARX_UNIT_CENTIMETER)

\* What one step does according to C30
AddSegmentStepAsClaimed ==
    /\ ret' = "false" => structure' = structure
    /\ failed' => ret' = "false"
    /\ (ret' # "none" /\ ~failed') =>
           /\ ret' = "true"
           /\ structure'.segment_count = structure.segment_count + 1
           /\ structure'.segments = Append(structure.segments, arg'[1])

\* C30: a failing add_segment (null argument, or the member list cannot
\* grow) returns false and leaves segment_count, segment_capacity, the
\* members and every statistic unchanged; a succeeding one raises
\* segment_count by 1 and appends a copy of the argument; segment_count <=
\* segment_capacity in every reachable state.
C30_AddSegmentAllOrNothing ==
    /\ [](/\ structure.segment_count <= structure.segment_capacity
          /\ Len(structure.segments) = structure.segment_count)
    /\ [][AddSegmentStepAsClaimed]_vars

\* Four members stored; the fifth could not be stored because the list could
\* not grow from 4 to 8: false, and the structure as it was.
C30_Witness ==
    /\ structure.segment_count = 4
    /\ structure.segment_capacity = 4
    /\ failed
    /\ ret = "false"
    /\ Len(arg) = 1
    /\ arg[1] # NULL
    /\ structure.total_length > 0

-----------------------------------------------------------------------------
\* The distance over the range the default configuration admits.

\* The Euclidean distance in whole millimetres of a coordinate difference
\* given in grid units, computed in millimetre space, where the sum of
\* squares of differences up to max_wall_length fits.
EuclideanMm(dx, dy, dz) ==
    LET mx == Abs(dx) \div GridPerMm
        my == Abs(dy) \div GridPerMm
        mz == Abs(dz) \div GridPerMm
    IN  Sqrt(mx * mx + my * my + mz * mz)

WithinMaxWallLength(p1, p2) ==
    LET max == arx_composition_config_default.max_wall_length
    IN  /\ Abs(p2.x - p1.x) <= max
        /\ Abs(p2.y - p1.y) <= max
        /\ Abs(p2.z - p1.z) <= max

\* C26: for every pair of points whose coordinates differ by at most the
\* default max_wall_length (50000 mm), arx_smart_point_3d_distance returns
\* the Euclidean distance (here: to the millimetre it lies in), because the
\* sum of squares does not overflow in that range.
C26_DistanceWithinMaxWallLength ==
    (results # NULL /\ WithinMaxWallLength(point1, point2)) =>
        LET e == EuclideanMm(point2.x - point1.x, point2.y - point1.y,
                             point2.z - point1.z)
        IN  /\ Mm(e) <= results.forward
            /\ results.forward < Mm(e + 1)

\* two points 5000 mm apart, well inside max_wall_length: the sum of squares
\* has overflowed and the distance is whatever the build makes of it
C26_Witness ==
    /\ results # NULL
    /\ point1 = MmPoint(0, 0, 0)
    /\ point2 = MmPoint(5000, 0, 0)
    /\ WithinMaxWallLength(point1, point2)
    /\ SumOverflows(point2.x - point1.x, 0, 0)
    /\ results.forward = ub
    /\ results.forward # Mm(5000)

\* Below the overflow bound the distance is the Euclidean one.
DistanceEuclideanBelowOverflow ==
    (/\ results # NULL
     /\ ~SumOverflows(point2.x - point1.x, point2.y - point1.y,
                      point2.z - point1.z)) =>
        LET e == EuclideanMm(point2.x - point1.x, point2.y - point1.y,
                             point2.z - point1.z)
        IN  /\ Mm(e) <= results.forward
            /\ results.forward < Mm(e + 1)

-----------------------------------------------------------------------------
\* The result array and its count when an allocation fails.

\* C28: a query called with non-null arguments returns a NULL array exactly
\* when the count it reports is 0, also when its allocation fails (the same
\* is claimed of compose_walls, detect_connections and filter_by_confidence,
\* which set their count before their malloc in the same way).
C28_NullArrayIffCountZero ==
    query # NULL => (results = NULL <=> result_count = 0)

\* two ids are in the index and the query's malloc fails: the caller gets
\* NULL together with a count of 2
C28_Witness ==
    /\ query # NULL
    /\ ~query.allocated
    /\ spatial_index.object_count = 2
    /\ results = NULL
    /\ result_count = 2

\* With the allocation succeeding the array is NULL exactly for count 0.
NullArrayIffCountZeroWhenAllocated ==
    (query # NULL /\ query.allocated) =>
        (results = NULL <=> result_count = 0)

-----------------------------------------------------------------------------
(* --- releasing what the engine returned ---------------------------------- *)
(* SpecOwnership: the caller composes, filters the composed array and then    *)
(* releases both arrays, in either order.  A pointer to a structure is the    *)
(* index of the structure in the composed array (as in filter_by_confidence). *)
(* results is the allocator's view of the composed structures: frees[p]       *)
(* counts the calls of free on structure p, read_freed tells whether a        *)
(* structure was read after it had been freed.  called lists the steps done.  *)

\* The pointers a composed array holds; a pointer handed to free is written
\* <<i>> for structure i, so that it can be told from NULL.
PointersOf(structs) ==
    [i \in 1..Len(structs) |-> IF structs[i] = NULL THEN NULL ELSE <<i>>]

\* The pointers a filtered array holds
PointersIn(array) ==
    IF array = NULL THEN NULL ELSE [j \in 1..Len(array) |-> <<array[j]>>]

\* Every structure is live and has never been freed.
FreshHeap(n) == [frees |-> [p \in 1..n |-> 0], read_freed |-> FALSE]

\* arx_wall_structure_free reads structure->segments and frees the structure.
arx_wall_structure_free(h, p) ==
    IF p = NULL THEN h
    ELSE [frees |-> [h.frees EXCEPT ![p[1]] = @ + 1],
          read_freed |-> h.read_freed \/ h.frees[p[1]] > 0]

RECURSIVE FreeEach(_, _, _, _)
\* the loop of arx_wall_composition_free_structures from element i on
FreeEach(h, array, i, count) ==
    IF i > count THEN h
    ELSE FreeEach(arx_wall_structure_free(h, array[i]), array, i + 1, count)

arx_wall_composition_free_structures(h, array, count) ==
    IF array = NULL THEN h ELSE FreeEach(h, array, 1, count)

InitOwnership ==
    /\ ub \in UBOutcomes
    /\ IdleMore
    /\ \E config \in EngineConfigs :
           engine = arx_wall_composition_engine_new(config)
    /\ seg = arx_wall_segment_new
    /\ seg_set = FALSE
    /\ pair = <<arx_wall_segment_new, arx_wall_segment_new>>
    /\ connection = NULL
    /\ structure = arx_wall_structure_new
    /\ segments \in Arrays(EngineSegments, MaxSegments)
    /\ structures = NULL
    /\ structure_count = 0
    /\ connections = NULL
    /\ connection_count = 0
    /\ filtered = NULL
    /\ filtered_count = 0
    /\ called = {}

OwnedCompose ==
    /\ called = {}
    /\ LET r == arx_wall_composition_engine_compose_walls(
                    engine, segments, Len(segments))
       IN  /\ structures' = r.structures
           /\ structure_count' = r.structure_count
           /\ results' = FreshHeap(r.structure_count)
    /\ called' = {"compose"}
    /\ UNCHANGED <<ub, seg, seg_set, pair, connection, engine, structure,
                   segments, connections, connection_count, filtered,
                   filtered_count, ret, failed, arg, point1, point2, curved,
                   points, point_count, spatial_index, inserted, query,
                   result_count, caller_config>>

OwnedFilter ==
    /\ called = {"compose"}
    /\ structures # NULL
    /\ LET r == arx_wall_composition_engine_filter_by_confidence(
                    engine, structures, structure_count)
       IN  /\ filtered' = r.filtered
           /\ filtered_count' = r.filtered_count
    /\ called' = called \cup {"filter"}
    /\ UNCHANGED <<ub, seg, seg_set, pair, connection, engine, structure,
                   segments, structures, structure_count, connections,
                   connection_count, moreVars>>

\* arx_wall_composition_free_structures(structures, structure_count)
FreeComposed ==
    /\ "filter" \in called
    /\ "free_structures" \notin called
    /\ results' = arx_wall_composition_free_structures(
                      results, PointersOf(structures), structure_count)
    /\ called' = called \cup {"free_structures"}
    /\ UNCHANGED <<ub, seg, seg_set, pair, connection, engine, structure,
                   segments, structures, structure_count, connections,
                   connection_count, filtered, filtered_count, ret, failed,
                   arg, point1, point2, curved, points, point_count,
                   spatial_index, inserted, query, result_count,
                   caller_config>>

\* arx_wall_composition_free_structures(filtered, filtered_count)
FreeFiltered ==
    /\ "filter" \in called
    /\ "free_filtered" \notin called
    /\ results' = arx_wall_composition_free_structures(
                      results, PointersIn(filtered), filtered_count)
    /\ called' = called \cup {"free_filtered"}
    /\ UNCHANGED <<ub, seg, seg_set, pair, connection, engine, structure,
                   segments, structures, structure_count, connections,
                   connection_count, filtered, filtered_count, ret, failed,
                   arg, point1, point2, curved, points, point_count,
                   spatial_index, inserted, query, result_count,
                   caller_config>>

NextOwnership == OwnedCompose \/ OwnedFilter \/ FreeComposed \/ FreeFiltered

SpecOwnership == InitOwnership /\ [][NextOwnership]_vars

\* C27: after compose_walls, filter_by_confidence on its result and
\* free_structures on both the composed and the filtered array, in either
\* order, no structure has been freed twice, none has been read after being
\* freed, and once both arrays are released every structure has been freed
\* exactly once.
C27_ReleasedExactlyOnce ==
    results # NULL =>
        /\ \A p \in DOMAIN results.frees : results.frees[p] <= 1
        /\ ~results.read_freed
        /\ {"free_structures", "free_filtered"} \subseteq called =>
               \A p \in DOMAIN results.frees : results.frees[p] = 1

\* three structures composed, the second and third kept by the filter, both
\* arrays released: the kept structures were freed twice, the second time
\* through a read of freed memory
C27_Witness ==
    /\ results # NULL
    /\ {"free_structures", "free_filtered"} \subseteq called
    /\ structure_count = 3
    /\ filtered = <<2, 3>>
    /\ results.frees = <<1, 2, 2>>
    /\ results.read_freed

\* Releasing the composed array alone frees every structure exactly once;
\* a structure the filter dropped is never freed twice.
ReleasedOnceThroughComposedArray ==
    results # NULL =>
        /\ ("free_structures" \in called /\ "free_filtered" \notin called) =>
               /\ \A p \in DOMAIN results.frees : results.frees[p] = 1
               /\ ~results.read_freed
        /\ \A p \in DOMAIN results.frees :
               (filtered = NULL \/ \A j \in DOMAIN filtered : filtered[j] # p)
                   => results.frees[p] <= 1

-----------------------------------------------------------------------------
(* --- inserting into and clearing one index ------------------------------- *)
(* SpecLookup: one caller-owned index, every allocation succeeding.  inserted *)
(* lists the <<id, point>> pairs inserted since the last clear, arg the       *)
(* arguments of the last insert (<<>> after a clear), query, results and      *)
(* result_count belong to the last query, made since the last change.         *)

\* Inserts between two clears: one more than the first growth allows, so
\* that the storage is doubled.
MaxLookup == 17

\* The caller chooses the first ids freely and alternates afterwards.
FreeInserts == 2

LookupIds(k) == IF k <= FreeInserts THEN {1, 2} ELSE {1 + (k % 2)}

LookupPoint == MmPoint(100, 100, 0)

InitLookup ==
    /\ ub = 0
    /\ engine = arx_wall_composition_engine_new(NULL)
    /\ Idle

LookupInsert ==
    /\ spatial_index.object_count < MaxLookup
    /\ \E object_id \in LookupIds(spatial_index.object_count + 1) :
        /\ spatial_index' = arx_spatial_index_insert(
                                spatial_index, object_id, LookupPoint, TRUE)
        /\ inserted' = Append(inserted, <<object_id, LookupPoint>>)
        /\ arg' = <<object_id, LookupPoint>>
    /\ ret' = "void"
    /\ failed' = FALSE
    /\ query' = NULL
    /\ results' = NULL
    /\ result_count' = 0
    /\ UNCHANGED <<ub, seg, seg_set, pair, connection, engine, structure,
                   segments, structures, structure_count, connections,
                   connection_count, filtered, filtered_count, called,
                   point1, point2, curved, points, point_count,
                   caller_config>>

LookupClear ==
    /\ spatial_index' = arx_spatial_index_clear(spatial_index)
    /\ inserted' = <<>>
    /\ arg' = <<>>
    /\ ret' = "void"
    /\ failed' = FALSE
    /\ query' = NULL
    /\ results' = NULL
    /\ result_count' = 0
    /\ UNCHANGED <<ub, seg, seg_set, pair, connection, engine, structure,
                   segments, structures, structure_count, connections,
                   connection_count, filtered, filtered_count, called,
                   point1, point2, curved, points, point_count,
                   caller_config>>

LookupQuery ==
    /\ LET r == arx_spatial_index_query_nearby(spatial_index, LookupPoint,
                                               10, result_count, TRUE)
       IN  /\ results' = r.results
           /\ result_count' = r.result_count
    /\ query' = [shape |-> "nearby", point |-> LookupPoint, radius_mm |-> 10,
                 allocated |-> TRUE]
    /\ ret' = "none"
    /\ failed' = FALSE
    /\ UNCHANGED <<ub, seg, seg_set, pair, connection, engine, structure,
                   segments, structures, structure_count, connections,
                   connection_count, filtered, filtered_count, called, arg,
                   point1, point2, curved, points, point_count,
                   spatial_index, inserted, caller_config>>

NextLookup == LookupInsert \/ LookupClear \/ LookupQuery

SpecLookup == InitLookup /\ [][NextLookup]_vars

\* C29: after any sequence of inserts and clears with allocations
\* succeeding, object_count is the number of inserts since the last clear
\* and is at most object_capacity; a query reports the ids inserted since
\* the last clear in insertion order, duplicates kept; a query right after a
\* clear reports 0 results.
C29_CountAndOrderSinceClear ==
    /\ spatial_index.object_count = Len(inserted)
    /\ spatial_index.object_count <= spatial_index.object_capacity
    /\ query # NULL =>
           /\ result_count = Len(inserted)
           /\ inserted # <<>> =>
                  /\ Len(results) = Len(inserted)
                  /\ \A i \in 1..Len(inserted) : results[i] = inserted[i][1]
           /\ arg = <<>> => (result_count = 0 /\ results = NULL)

\* ids 2, 1, 2 inserted after a clear that followed seventeen inserts (the
\* storage has been doubled and still holds the older ids): the query
\* reports 2, 1, 2
C29_Witness ==
    /\ query # NULL
    /\ spatial_index.object_capacity = 2 * InitialLookupCapacity
    /\ Len(spatial_index.object_lookup) = MaxLookup
    /\ inserted = <<<<2, LookupPoint>>, <<1, LookupPoint>>, <<2, LookupPoint>>>>
    /\ spatial_index.object_lookup[4] = 1
    /\ result_count = 3
    /\ results = <<2, 1, 2>>

\* right after a clear of an index that held ids, a query reports nothing
QueryAfterClearIsEmpty ==
    /\ query # NULL
    /\ arg = <<>>
    /\ Len(spatial_index.object_lookup) > 0
    /\ result_count = 0
    /\ results = NULL

-----------------------------------------------------------------------------
(* --- two threads on two independent instances ---------------------------- *)
(* SpecThreads: thread t owns instance t, an engine, a spatial index and an   *)
(* input array, and issues calls on it without any lock.  Every variable     *)
(* used here is a tuple with one entry per thread: spatial_index[t] and       *)
(* engine[t] are the thread's objects, segments[t] its input array,           *)
(* structures[t] the array its last compose_walls returned, results[t] what   *)
(* its last completed call returned, query[t] its call in progress (NULL      *)
(* when it is between calls) and called[t] the calls it has completed.  A     *)
(* call takes two steps, so that the calls of the two threads overlap.        *)

Threads == {1, 2}

\* Calls the two threads make together
MaxCalls == 3

\* The calls begun so far, completed or in progress
CallsBegun ==
    Len(called[1]) + Len(called[2])
        + Cardinality({t \in Threads : query[t] # NULL})

ThreadCalls ==
    {[op |-> "insert", object_id |-> 1], [op |-> "insert", object_id |-> 2],
     [op |-> "clear"], [op |-> "query"], [op |-> "compose"],
     [op |-> "detect"], [op |-> "filter"]}

ThreadConfigs ==
    <<NULL,
      [arx_composition_config_default
          EXCEPT !.confidence_threshold = (8 * ConfScale) \div 10]>>

ThreadSegments ==
    <<<<MakeSegment(1, MmPoint(0, 0, 0), MmPoint(1000, 0, 0), Mm(2400), Mm(100), 500),
        MakeSegment(2, MmPoint(1000, 0, 0), MmPoint(2000, 0, 0), Mm(2400), Mm(100), 700)>>,
      <<MakeSegment(3, MmPoint(0, 0, 0), MmPoint(1000, 120, 0), Mm(3000), Mm(200), 900),
        MakeSegment(4, MmPoint(0, 0, 0), MmPoint(0, 1000, 0), Mm(2400), Mm(150), 850),
        MakeSegment(5, MmPoint(0, 1000, 0), MmPoint(0, 1500, 0), Mm(2400), Mm(100), 600)>>>>

\* The objects of one thread before its first call
FreshInstance(t) ==
    [index |-> arx_spatial_index_new(10, 8),
     engine |-> arx_wall_composition_engine_new(ThreadConfigs[t]),
     segments |-> ThreadSegments[t],
     structures |-> NULL,
     result |-> NULL]

\* One call on the objects of one thread, every allocation succeeding
Apply(inst, call) ==
    CASE call.op = "insert" ->
            [inst EXCEPT !.index = arx_spatial_index_insert(
                                       @, call.object_id, LookupPoint, TRUE),
                         !.result = NULL]
      [] call.op = "clear" ->
            [inst EXCEPT !.index = arx_spatial_index_clear(@),
                         !.result = NULL]
      [] call.op = "query" ->
            [inst EXCEPT !.result = arx_spatial_index_query_nearby(
                                        inst.index, LookupPoint, 10, 0, TRUE)]
      [] call.op = "compose" ->
            LET r == arx_wall_composition_engine_compose_walls(
                         inst.engine, inst.segments, Len(inst.segments))
            IN  [inst EXCEPT !.structures = r.structures, !.result = r]
      [] call.op = "detect" ->
            [inst EXCEPT !.result =
                arx_wall_composition_engine_detect_connections(
                    inst.engine, inst.segments, Len(inst.segments))]
      [] call.op = "filter" ->
            [inst EXCEPT !.result =
                arx_wall_composition_engine_filter_by_confidence(
                    inst.engine, inst.structures, Len(inst.structures))]

\* Mutant of WriteBack: the objects are one static instance all threads share.
WriteShared(all, t, value) == [i \in DOMAIN all |-> value]

\* A call writes through the instance pointer it was given, nowhere else.
WriteBack(all, t, value) == [all EXCEPT ![t] = value]

ThreadState(t) ==
    [index |-> spatial_index[t], engine |-> engine[t],
     segments |-> segments[t], structures |-> structures[t],
     result |-> results[t]]

InitThreads ==
    /\ ub = 0
    /\ spatial_index = [t \in Threads |-> FreshInstance(t).index]
    /\ engine = [t \in Threads |-> FreshInstance(t).engine]
    /\ segments = [t \in Threads |-> FreshInstance(t).segments]
    /\ structures = [t \in Threads |-> FreshInstance(t).structures]
    /\ results = [t \in Threads |-> FreshInstance(t).result]
    /\ query = [t \in Threads |-> NULL]
    /\ called = [t \in Threads |-> <<>>]
    /\ seg = arx_wall_segment_new
    /\ seg_set = FALSE
    /\ pair = <<arx_wall_segment_new, arx_wall_segment_new>>
    /\ connection = NULL
    /\ structure = arx_wall_structure_new
    /\ structure_count = 0
    /\ connections = NULL
    /\ connection_count = 0
    /\ filtered = NULL
    /\ filtered_count = 0
    /\ ret = "none"
    /\ failed = FALSE
    /\ arg = <<>>
    /\ point1 = NULL
    /\ point2 = NULL
    /\ curved = arx_curved_wall_segment_new
    /\ points = NULL
    /\ point_count = 0
    /\ inserted = <<>>
    /\ result_count = 0
    /\ caller_config = NULL

\* thread t enters a call: the function reads the thread's objects
ThreadBegin ==
    \E t \in Threads, call \in ThreadCalls :
        /\ query[t] = NULL
        /\ CallsBegun < MaxCalls
        /\ query' = [query EXCEPT ![t] =
                        [call |-> call,
                         outcome |-> Apply(ThreadState(t), call)]]
        /\ UNCHANGED <<ub, seg, seg_set, pair, connection, engine, structure,
                       segments, structures, structure_count, connections,
                       connection_count, filtered, filtered_count, called,
                       ret, failed, arg, point1, point2, curved, points,
                       point_count, spatial_index, inserted, results,
                       result_count, caller_config>>

\* thread t leaves its call: what the function wrote and returned
ThreadEnd ==
    \E t \in Threads :
        /\ query[t] # NULL
        /\ spatial_index' = WriteBack(spatial_index, t, query[t].outcome.index)
        /\ engine' = WriteBack(engine, t, query[t].outcome.engine)
        /\ segments' = WriteBack(segments, t, query[t].outcome.segments)
        /\ structures' = WriteBack(structures, t, query[t].outcome.structures)
        /\ results' = WriteBack(results, t, query[t].outcome.result)
        /\ called' = [called EXCEPT ![t] = Append(@, query[t].call)]
        /\ query' = [query EXCEPT ![t] = NULL]
        /\ UNCHANGED <<ub, seg, seg_set, pair, connection, structure,
                       structure_count, connections, connection_count,
                       filtered, filtered_count, ret, failed, arg, point1,
                       point2, curved, points, point_count, inserted,
                       result_count, caller_config>>

NextThreads == ThreadBegin \/ ThreadEnd

SpecThreads == InitThreads /\ [][NextThreads]_vars

RECURSIVE RunAlone(_, _, _)
\* The objects of a thread after the calls hist[i..] made on inst alone
RunAlone(inst, hist, i) ==
    IF i > Len(hist) THEN inst
    ELSE RunAlone(Apply(inst, hist[i]), hist, i + 1)

\* C21: whatever the interleaving of the two threads' calls, the objects of
\* each thread and the result of its last call are those its own calls give
\* when they run alone on a fresh instance.
C21_PerInstanceState ==
    \A t \in Threads :
        ThreadState(t) = RunAlone(FreshInstance(t), called[t], 1)

\* thread 1 has inserted id 1 and its query is in progress; thread 2 has
\* composed its three segments meanwhile
C21_Witness ==
    /\ called[1] = <<[op |-> "insert", object_id |-> 1]>>
    /\ query[1] # NULL
    /\ query[1].call = [op |-> "query"]
    /\ query[1].outcome.result = [results |-> <<1>>, result_count |-> 1]
    /\ called[2] = <<[op |-> "compose"]>>
    /\ results[2].structure_count = 3
    /\ spatial_index[1].object_count = 1
    /\ spatial_index[2].object_count = 0
    /\ structures[1] = NULL
    /\ Len(structures[2]) = 3

====
